---- MODULE Spec2Model ----
\* Checkpoint save/load of teletron.train.checkpoint.CheckPointMixin as a state
\* machine over the ranks of one job and the checkpoint directory tree they share.
\*
\* A job is a set of ranks 0..World-1 laid out on the tensor, context, data and
\* pipeline parallel axes.  The ranks run the same program: they reach a
\* save_checkpoint or load_checkpoint call together, then run it one step at a
\* time, interleaved, meeting only at the barriers.  The disk is a map from paths
\* to file contents; a path is a sequence of components, so that os.path.join and
\* os.path.dirname are computed as the code computes them.
EXTENDS Integers, Sequences, FiniteSets, TLC

\* ------------------------------------------------------------------ bounds
MaxWorld == 2    \* ranks of a job: tp * pp * dp * cp <= MaxWorld
MaxIter  == 2    \* iteration numbers passed to save_checkpoint: 1..MaxIter
MaxClock == 1    \* training steps taken between calls
MaxCalls == 3    \* save/load calls of one behaviour
MaxStages == 3   \* virtual pipeline stages of a rank: len(model) <= MaxStages
MaxShardAxis == 2  \* data-parallel and context-parallel sizes of a Zero2 job
MaxLogCalls == 5   \* calls of log_training_infos in one job
MaxInterval == 3   \* args.log_interval <= MaxInterval

VARIABLES
    topo,     \* the job's parallel sizes [tp, pp, dp, cp] and whether torch.distributed is initialized
    args,     \* get_args(): the flags fixed at start-up (the same on every rank)
    run,      \* per rank: the args fields load_checkpoint assigns (finetune, consumed_*_samples)
    live,     \* per rank: model stages, optimizer, scheduler and generator states of the process
    disk,     \* path -> content of every file under the checkpoint roots
    pc,       \* per rank: position in the current call ("idle" between calls)
    call,     \* the call the ranks are executing: [op, iteration, flops]
    ret,      \* per rank: outcome of the rank's last load_checkpoint / save_checkpoint
    clock,    \* number of training steps taken (stamps the live state they produce)
    history,  \* the calls made so far, oldest first: [op, iteration, flops] and the
              \* generator states of the ranks at the call
    written,  \* history: <<path, rank>> for every file write of the current save call
    barriers, \* history: per rank, the barriers entered in the current call
    logger,   \* the training log of the last rank: log_interval, the total_loss_dict the
              \* caller keeps between calls of log_training_infos, and what the last call did
    dirs      \* the directories that exist under the checkpoint roots

vars == <<topo, args, run, live, disk, pc, call, ret, clock, history, written, barriers, logger, dirs>>

\* ------------------------------------------------------------ parallel state
World == topo.tp * topo.pp * topo.dp * topo.cp
Ranks == 0 .. (World - 1)

\* megatron.core.parallel_state: rank order tp (fastest), cp, dp, pp.
get_tensor_model_parallel_rank(r)   == r % topo.tp
get_context_parallel_rank(r)        == (r \div topo.tp) % topo.cp
get_data_parallel_rank(r)           == (r \div (topo.tp * topo.cp)) % topo.dp
get_pipeline_model_parallel_rank(r) == r \div (topo.tp * topo.cp * topo.dp)
\* Rank inside the data-parallel group that spans the context-parallel ranks
\* (no expert parallelism): 0 on exactly one rank of every (tp, pp) cell.
get_data_modulo_expert_parallel_rank(r) ==
    get_data_parallel_rank(r) * topo.cp + get_context_parallel_rank(r)

\* ------------------------------------------------------------------- values
\* The state of component c produced by training step t on the ranks that share
\* key k = <<tp, pp, dp, cp>> (0 on an axis along which the component is replicated).
Val(c, t, k) == [c |-> c, t |-> t, k |-> k]
None == [c |-> "None"]
List(items) == [items |-> items]                                 \* a Python list

ModelKeyOf(r) == <<get_tensor_model_parallel_rank(r), get_pipeline_model_parallel_rank(r), 0, 0>>
ShardKeyOf(r) == <<get_tensor_model_parallel_rank(r), get_pipeline_model_parallel_rank(r),
                   get_data_parallel_rank(r), get_context_parallel_rank(r)>>
\* Generators are seeded per (tp, pp), and per data-parallel rank as well under
\* data_parallel_random_init.
RngKeyOf(r) == <<get_tensor_model_parallel_rank(r), get_pipeline_model_parallel_rank(r),
                 IF args.data_parallel_random_init THEN get_data_parallel_rank(r) ELSE 0, 0>>
\* optimizer.state_dict(): one partition per (dp, cp) rank under Zero2, replicated otherwise.
OptKeyOf(r) == IF args.use_zero2 THEN ShardKeyOf(r) ELSE ModelKeyOf(r)

RngAt(t, k) == [random_rng_state   |-> Val("random", t, k),
                np_rng_state       |-> Val("np", t, k),
                torch_rng_state    |-> Val("torch", t, k),
                cuda_rng_state     |-> Val("cuda", t, k),
                rng_tracker_states |-> <<Val("tracker", t, k)>>]

\* sys.modules: the names _load_zero2_checkpoint aliases for checkpoints pickled
\* by older module layouts, and the modules it aliases them to.
LossScaler    == "megatron.legacy.fp16_deprecated.loss_scaler"
LegacyModel   == "megatron.legacy.model"
LegacyTargets == {LossScaler, LegacyModel}
Aliases       == {"fp16.loss_scaler", "megatron.fp16.loss_scaler", "megatron.model"}

\* The process state after t training steps (t = 0: freshly initialised and seeded).
LiveAt(r, t) ==
    [model       |-> [i \in 1 .. args.num_stages |-> Val("model", t, <<ModelKeyOf(r)[1], ModelKeyOf(r)[2], i - 1, 0>>)],
     optimizer   |-> Val("optimizer", t, OptKeyOf(r)),
     param_state |-> Val("param_state", t, ShardKeyOf(r)),
     sched       |-> Val("sched", t, ModelKeyOf(r)),
     rng         |-> RngAt(t, RngKeyOf(r)),
     modules     |-> args.legacy_modules]

\* -------------------------------------------------------------------- paths
\* A path is a sequence of components; a component is a name with two numbers.
Comp(k, a, b) == [k |-> k, a |-> a, b |-> b]
join(p, c)    == Append(p, c)                                   \* os.path.join
dirname(p)    == IF Len(p) = 0 THEN p ELSE SubSeq(p, 1, Len(p) - 1)  \* os.path.dirname
RootOf(d)     == <<Comp(d, 0, 0)>>

\* os.makedirs(path, exist_ok=True): the directory and every directory above it.
makedirs(path) == {SubSeq(path, 1, n) : n \in 1 .. Len(path)}
\* ensure_directory_exists(filename, check_parent): the directory of the file,
\* or with check_parent=False the path itself.
ensure_directory_exists(filename, check_parent) ==
    makedirs(IF check_parent THEN dirname(filename) ELSE filename)
\* The directories a tree of files lies in.
DirsOf(files) == UNION {makedirs(dirname(p)) : p \in DOMAIN files}

get_checkpoint_tracker_filename(root) == join(root, Comp("latest_checkpointed_iteration.txt", 0, 0))

\* get_checkpoint_name(checkpoints_path, iteration, release, return_base_dir) for rank r:
\* <root>/iter_<N> (or <root>/release), then mp_rank_<tp>_<pp>/model_optim_rng.pt.
get_checkpoint_name(root, iteration, release, return_base_dir, r) ==
    LET directory == IF release THEN Comp("release", 0, 0) ELSE Comp("iter", iteration, 0)
        base      == join(root, directory)
    IN  IF return_base_dir THEN base
        ELSE join(join(base, Comp("mp_rank", get_tensor_model_parallel_rank(r),
                                             get_pipeline_model_parallel_rank(r))),
                  Comp("model_optim_rng.pt", 0, 0))

get_distributed_optimizer_checkpoint_name(model_checkpoint_name) ==
    join(dirname(model_checkpoint_name), Comp("distrib_optim.pt", 0, 0))

Zero2NameByDpOnly(model_checkpoint_name, dp_rank, cp_rank) ==
    join(dirname(model_checkpoint_name), Comp("zero2_optim", dp_rank, 0))
get_zero2_optimizer_checkpoint_name(model_checkpoint_name, dp_rank, cp_rank) ==
    join(dirname(model_checkpoint_name), Comp("zero2_optim", dp_rank, cp_rank))

\* dist_checkpointing.save lays one shard file per rank, and the common
\* (unsharded) entries once, inside the checkpoint directory.
dist_shard_name(checkpoint_name, r) == join(checkpoint_name, Comp("shard", r, 0))
dist_common_name(checkpoint_name)   == join(checkpoint_name, Comp("common.pt", 0, 0))

\* --------------------------------------------------------------- state dict
EmptyDict == [x \in {} |-> x]
ModelKeyOneBased(i) == "model" \o ToString(i + 1)
ModelKey(i) == "model" \o ToString(i)                           \* 'model%d' % i
\* A sharded descriptor: how to rebuild the entry from the shards, and the
\* live tensor it describes.
ShardedDesc(v, opts) == [desc |-> v, opts |-> opts]

\* state_dict['args'] = args: the fields of the live args a later load reads.
ArgsSnapshot(r) ==
    [tensor_model_parallel_size   |-> topo.tp,
     pipeline_model_parallel_size |-> topo.pp,
     consumed_train_samples       |-> run[r].consumed_train_samples,
     consumed_valid_samples       |-> run[r].consumed_valid_samples,
     no_save_rng                  |-> args.no_save_rng,
     ckpt_fully_parallel_save     |-> args.ckpt_fully_parallel_save]

\* The ranks of r's data-parallel group (same tp, pp and cp), by data-parallel rank.
DpPeer(r, d) == CHOOSE q \in Ranks :
                   /\ get_tensor_model_parallel_rank(q) = get_tensor_model_parallel_rank(r)
                   /\ get_pipeline_model_parallel_rank(q) = get_pipeline_model_parallel_rank(r)
                   /\ get_context_parallel_rank(q) = get_context_parallel_rank(r)
                   /\ get_data_parallel_rank(q) = d

\* get_rng_state(use_dist_ckpt): the rank's snapshot, gathered over the
\* data-parallel group under data_parallel_random_init; one sharded object
\* under the distributed format.
get_rng_state(r, use_dist_ckpt) ==
    LET rng_state_list ==
            IF topo.initialized /\ topo.dp > 1 /\ args.data_parallel_random_init
            THEN List([d \in 1 .. topo.dp |-> live[DpPeer(r, d - 1)].rng])
            ELSE List(<<live[r].rng>>)
    IN  IF use_dist_ckpt THEN ShardedDesc(rng_state_list, EmptyDict) ELSE rng_state_list

\* The stage calls of one pass over the model list, in program order: "set" is
\* mpu.set_virtual_pipeline_model_parallel_rank(i), "stage" is the use of
\* model[i] under the key it is stored at, with the stage that is active then
\* (NoStage: none selected by this pass).
NoStage == 0 - 1
StageCall(op, i, key, active) == [op |-> op, i |-> i, key |-> key, active |-> active]

\* for i in range(len(model)): set_virtual_pipeline_model_parallel_rank(i); ... model[i] ...
RECURSIVE StageLoop(_, _, _)
StageLoop(i, n, s) ==
    IF i >= n THEN s
    ELSE LET set == [active |-> i, trace |-> Append(s.trace, StageCall("set", i, "", i))]
         IN  StageLoop(i + 1, n,
                 [set EXCEPT !.trace = Append(@, StageCall("stage", i, ModelKey(i), set.active))])

\* if len(model) == 1: ... model[0] ...  else: the loop
Stages(n) ==
    IF n = 1 THEN <<StageCall("stage", 0, "model", NoStage)>>
    ELSE StageLoop(0, n, [active |-> NoStage, trace |-> <<>>]).trace

\* Lines 386 and 392: the scheduler's state goes into the record.
IncludesSchedulerAlways(opt_param_scheduler) == opt_param_scheduler # None
IncludesScheduler(opt_param_scheduler) == ~args.no_save_optim /\ opt_param_scheduler # None

generate_state_dict(a, model, optimizer, opt_param_scheduler, rng_state, use_dist_ckpt, iteration, optim_sd_kwargs) ==
    LET entry(m) == IF use_dist_ckpt THEN ShardedDesc(m, EmptyDict) ELSE m
        head  == ("args" :> a) @@ ("checkpoint_version" :> 3)
        iter  == IF iteration # <<>> THEN ("iteration" :> iteration[1]) ELSE EmptyDict
        calls == Stages(Len(model))
        built == {j \in DOMAIN calls : calls[j].op = "stage"}
        mdl   == [k \in {calls[j].key : j \in built} |->
                     entry(model[1 + calls[CHOOSE j \in built : calls[j].key = k].i])]
        opt   == IF ~args.no_save_optim /\ optimizer # None /\ ~args.use_zero2
                 THEN ("optimizer" :> IF use_dist_ckpt THEN ShardedDesc(optimizer, optim_sd_kwargs)
                                      ELSE optimizer)
                 ELSE EmptyDict
        sch   == IF IncludesScheduler(opt_param_scheduler)
                 THEN ("opt_param_scheduler" :> opt_param_scheduler)
                 ELSE EmptyDict
        rng   == IF ~args.no_save_rng THEN ("rng_state" :> rng_state) ELSE EmptyDict
    IN  head @@ iter @@ mdl @@ opt @@ sch @@ rng

\* The objects a rank passes to save_checkpoint / load_checkpoint.
OptimizerOf(r) == IF args.optimizer_present THEN live[r].optimizer ELSE None
SchedulerOf(r) == IF args.scheduler_present THEN live[r].sched ELSE None

\* --------------------------------------------------------------------- disk
Exists(p)  == p \in DOMAIN disk
WriteAll(files) == (files @@ disk)          \* files: path -> content, newest wins

\* str(iteration) written to the tracker, and read_metadata's parse of it.
IterationStrings == {ToString(n) : n \in 0 .. MaxIter + 1}
str(n) == ToString(n)
int(s) == CHOOSE n \in 0 .. MaxIter + 1 : ToString(n) = s

\* ------------------------------------------------------------ control state
\* Positions of a rank inside save_checkpoint and load_checkpoint, in program
\* order; "idle" is outside any call (before it, or returned from it).
Pos(p) == CASE p = "s_distopt"  -> 1
            [] p = "s_zero2"    -> 2
            [] p = "s_model"    -> 3
            [] p = "s_barrier1" -> 4
            [] p = "s_tracker"  -> 5
            [] p = "s_barrier2" -> 6
            [] p = "l_body"     -> 1
            [] p = "l_barrier"  -> 2
            [] p = "idle"       -> 7
            [] OTHER            -> 0       \* "dead": the process terminated inside load_checkpoint

\* torch.distributed.barrier() entered at position p returns once every rank
\* has entered it; without a process group the call is not made at all.
BarrierOpenNoWait(p) == TRUE
BarrierOpen(p) == \A q \in Ranks : Pos(pc[q]) >= Pos(p)
\* Lines 114, 128 and 350: 'if torch.distributed.is_initialized()', on every rank.
EntersBarrierRankZero(r) == topo.initialized /\ r = 0
EntersBarrier(r) == topo.initialized
barrier(r, p) == EntersBarrier(r) => BarrierOpen(p)

AllIdle == \A r \in Ranks : pc[r] = "idle"
\* What a rank's last call left behind: how it ended, what it returned, the
\* restore calls it made, the args fields it entered with, the config recorded
\* in the checkpoint it read, how the rank's previous call in this process
\* ended, the stage calls it made, the directory, release flag and keys of
\* the record it read, the Zero2 optimizer states attached to the record, and
\* the sharding type it asked the optimizer's sharded state for.
NoPrev  == [status |-> "none", iteration |-> 0, found |-> FALSE]
NoRet   == [status |-> "none", what |-> "", iteration |-> 0, flops |-> 0, restored |-> {},
            entry |-> None, found |-> FALSE, ckpt_args |-> None, prev |-> NoPrev,
            stages |-> <<>>, load_dir |-> <<>>, release |-> FALSE, keys |-> {},
            zero2 |-> None, sharding_type |-> "none"]
Entered(r) == [NoRet EXCEPT !.prev = [status |-> ret[r].status, iteration |-> ret[r].iteration,
                                      found |-> ret[r].found]]

\* ----------------------------------------------------------- save_checkpoint
\* The caller reaches save_checkpoint(iteration, ..., flops) on every rank.
CallSave(iteration, flops) ==
    /\ AllIdle
    /\ Len(history) < MaxCalls
    /\ call' = [op |-> "save", iteration |-> iteration, flops |-> flops]
    /\ pc' = [r \in Ranks |-> "s_distopt"]
    /\ ret' = [r \in Ranks |-> Entered(r)]
    /\ history' = Append(history, [op |-> "save", iteration |-> iteration, flops |-> flops,
                                    rng |-> [r \in Ranks |-> live[r].rng]])
    /\ written' = {}
    /\ barriers' = [r \in Ranks |-> 0]
    /\ UNCHANGED <<topo, args, run, live, disk, clock, logger, dirs>>

\* checkpoint_name of line 69.
SaveCheckpointName(r) ==
    get_checkpoint_name(RootOf(args.save), call.iteration, FALSE, args.use_dist_ckpt, r)

\* optimizer.save_parameter_state(filename): the data-parallel group (context
\* parallel ranks included) gathers its shards on its rank 0, which writes them.
save_parameter_state(r, filename) ==
    IF get_data_modulo_expert_parallel_rank(r) = 0
    THEN filename :> [kind |-> "param_state",
                      shards |-> [q \in {x \in Ranks : ModelKeyOf(x) = ModelKeyOf(r)} |-> live[q].param_state]]
    ELSE EmptyDict

\* zero2_optimizer_save(optimizer, optim_checkpoint_name)
zero2_optimizer_save(r, optim_checkpoint_name) ==
    optim_checkpoint_name :> [kind |-> "zero2", sd |-> live[r].optimizer]

CommonKeys == {"args", "checkpoint_version", "iteration", "opt_param_scheduler",
               "num_floating_point_operations_so_far"}

\* dist_checkpointing.save(state_dict, checkpoint_name, ...): every rank writes
\* its shards; the coordinator also writes the metadata and the common entries.
dist_checkpointing_save(state_dict, checkpoint_name, r) ==
    LET sharded == (DOMAIN state_dict) \ CommonKeys
        shard   == dist_shard_name(checkpoint_name, r) :>
                       [kind |-> "shard",
                        sd   |-> [k \in sharded |-> state_dict[k].desc],
                        opts |-> [k \in sharded |-> state_dict[k].opts]]
        common  == (dist_common_name(checkpoint_name) :>
                       [kind |-> "common",
                        sd   |-> [k \in (DOMAIN state_dict) \cap CommonKeys |-> state_dict[k]]])
                   @@ (join(checkpoint_name, Comp("metadata.json", 0, 0)) :> [kind |-> "metadata"])
    IN  IF ~topo.initialized \/ r = 0 THEN shard @@ common ELSE shard

\* torch.save(state_dict, checkpoint_name)
torch_save(state_dict, checkpoint_name) == checkpoint_name :> [kind |-> "torch", sd |-> state_dict]

Step(r, from, to, files) ==
    /\ pc[r] = from
    /\ pc' = [pc EXCEPT ![r] = to]
    /\ disk' = WriteAll(files)
    /\ written' = written \cup {<<p, r>> : p \in DOMAIN files}

\* Lines 71-76: the distributed optimizer's parameter state.
SaveDistOptimFiles(r) ==
    IF /\ args.use_distributed_optimizer /\ ~args.no_save_optim
       /\ OptimizerOf(r) # None /\ ~args.use_dist_ckpt
    THEN save_parameter_state(r, get_distributed_optimizer_checkpoint_name(SaveCheckpointName(r)))
    ELSE EmptyDict

SaveDistOptim(r) ==
    /\ Step(r, "s_distopt", "s_zero2", SaveDistOptimFiles(r))
    /\ dirs' = dirs \cup (IF /\ args.use_distributed_optimizer /\ ~args.no_save_optim
                             /\ OptimizerOf(r) # None /\ ~args.use_dist_ckpt
                          THEN ensure_directory_exists(
                                   get_distributed_optimizer_checkpoint_name(SaveCheckpointName(r)), TRUE)
                          ELSE {})
    /\ UNCHANGED <<topo, args, run, live, call, ret, clock, history, barriers, logger>>

\* Lines 78-85: the Zero2 optimizer shard of this (dp, cp) rank.
SaveZero2Files(r) ==
    IF args.use_zero2 /\ ~args.no_save_optim /\ OptimizerOf(r) # None
    THEN zero2_optimizer_save(r,
             get_zero2_optimizer_checkpoint_name(SaveCheckpointName(r),
                 get_data_parallel_rank(r), get_context_parallel_rank(r)))
    ELSE EmptyDict

SaveZero2(r) ==
    /\ Step(r, "s_zero2", "s_model", SaveZero2Files(r))
    /\ dirs' = dirs \cup DirsOf(SaveZero2Files(r))
    /\ UNCHANGED <<topo, args, run, live, call, ret, clock, history, barriers, logger>>

\* Lines 87-111: the model record.
WritesModelRecordAll(r) == TRUE
WritesModelRecord(r) ==
    \/ ~topo.initialized
    \/ get_data_modulo_expert_parallel_rank(r) = 0
    \/ args.use_dist_ckpt

SaveStateDict(r) ==
    LET optim_sd_kwargs ==
            IF args.use_dist_ckpt /\ args.use_distributed_optimizer
            THEN [sharding_type |-> IF args.ckpt_fully_parallel_save
                                    THEN "fully_sharded_bucket_space"
                                    ELSE "dp_zero_gather_scatter"]
            ELSE EmptyDict
    IN  ("num_floating_point_operations_so_far" :> call.flops)
        @@ generate_state_dict(ArgsSnapshot(r), live[r].model, OptimizerOf(r), SchedulerOf(r),
                               get_rng_state(r, args.use_dist_ckpt), args.use_dist_ckpt,
                               <<call.iteration>>, optim_sd_kwargs)

SaveModelFiles(r) ==
    IF WritesModelRecord(r)
    THEN IF args.use_dist_ckpt
         THEN dist_checkpointing_save(SaveStateDict(r), SaveCheckpointName(r), r)
         ELSE torch_save(SaveStateDict(r), SaveCheckpointName(r))
    ELSE EmptyDict

\* Lines 103-105 and 110: the directory the record goes to is made by rank 0
\* under the distributed format, by every writer under the monolithic one.
MakesRecordDirectory(r) == ~topo.initialized \/ r = 0

SaveModelDirs(r) ==
    IF ~WritesModelRecord(r) THEN {}
    ELSE IF args.use_dist_ckpt
    THEN IF MakesRecordDirectory(r) THEN ensure_directory_exists(SaveCheckpointName(r), FALSE) ELSE {}
    ELSE ensure_directory_exists(SaveCheckpointName(r), TRUE)

SaveModel(r) ==
    /\ Step(r, "s_model", "s_barrier1", SaveModelFiles(r))
    /\ ret' = [ret EXCEPT ![r].stages = IF WritesModelRecord(r) THEN Stages(args.num_stages) ELSE <<>>]
    /\ dirs' = dirs \cup SaveModelDirs(r)
    /\ UNCHANGED <<topo, args, run, live, call, clock, history, barriers, logger>>

\* Lines 113-115: "Wait so everyone is done (necessary)".
SaveBarrier1(r) ==
    /\ barrier(r, "s_barrier1")
    /\ Step(r, "s_barrier1", "s_tracker", EmptyDict)
    /\ barriers' = [barriers EXCEPT ![r] = @ + (IF EntersBarrier(r) THEN 1 ELSE 0)]
    /\ UNCHANGED <<topo, args, run, live, call, ret, clock, history, logger, dirs>>

\* Lines 120-125: "And update the latest iteration".
WritesTrackerAny(r) == TRUE
WritesTracker(r) == ~topo.initialized \/ r = 0

\* f.write(str(iteration)); the variant keeps the larger of the old and new value.
TrackerValueMax ==
    LET f == get_checkpoint_tracker_filename(RootOf(args.save))
    IN  IF Exists(f) /\ disk[f] \in IterationStrings /\ int(disk[f]) > call.iteration
        THEN disk[f] ELSE str(call.iteration)
TrackerValue == str(call.iteration)

SaveTrackerFiles(r) ==
    IF WritesTracker(r)
    THEN get_checkpoint_tracker_filename(RootOf(args.save)) :> TrackerValue
    ELSE EmptyDict

SaveTracker(r) ==
    /\ Step(r, "s_tracker", "s_barrier2", SaveTrackerFiles(r))
    /\ UNCHANGED <<topo, args, run, live, call, ret, clock, history, barriers, logger, dirs>>

\* Lines 127-129: "Wait so everyone is done (not necessary)"; the function ends
\* there and returns None.
SaveBarrier2(r) ==
    /\ barrier(r, "s_barrier2")
    /\ Step(r, "s_barrier2", "idle", EmptyDict)
    /\ barriers' = [barriers EXCEPT ![r] = @ + (IF EntersBarrier(r) THEN 1 ELSE 0)]
    /\ ret' = [ret EXCEPT ![r] =
                 [ret[r] EXCEPT !.status = "saved", !.iteration = call.iteration, !.flops = call.flops]]
    /\ UNCHANGED <<topo, args, run, live, call, clock, history, logger, dirs>>

\* ----------------------------------------------------------- checkpoint reads
HasKey(d, k) == k \in DOMAIN d
check_is_distributed_checkpoint(checkpoint_name) ==
    Exists(join(checkpoint_name, Comp("metadata.json", 0, 0)))

checkpoint_exists(root) == Exists(get_checkpoint_tracker_filename(root))

\* read_metadata(tracker_filename): the iteration written there, or the release marker.
read_metadata(tracker_filename) ==
    LET metastring == disk[tracker_filename]
    IN  IF metastring = "release" THEN [ok |-> TRUE, iteration |-> 0, release |-> TRUE]
        ELSE IF metastring \in IterationStrings
             THEN [ok |-> TRUE, iteration |-> int(metastring), release |-> FALSE]
             ELSE [ok |-> FALSE, iteration |-> 0, release |-> FALSE]

Loaded(state_dict, checkpoint_name, release) ==
    [status |-> "ok", what |-> "", state_dict |-> state_dict,
     checkpoint_name |-> checkpoint_name, release |-> release]
NotLoaded(status, what) ==
    [status |-> status, what |-> what, state_dict |-> None, checkpoint_name |-> <<>>, release |-> FALSE]

\* dist_checkpointing.load(sharded_state_dict, checkpoint_name) on rank r: the
\* common entries, and every entry requested by a sharded descriptor, rebuilt
\* from the shards in the directory.
dist_checkpointing_load(r, sharded_state_dict, checkpoint_name) ==
    LET common  == disk[dist_common_name(checkpoint_name)].sd
        wanted  == {k \in (DOMAIN sharded_state_dict) \ CommonKeys :
                       /\ sharded_state_dict[k] # None
                       /\ HasKey(sharded_state_dict[k], "desc")}
        shards  == {p \in DOMAIN disk : \E q \in 0 .. MaxWorld : p = dist_shard_name(checkpoint_name, q)}
        holding(k) == {p \in shards : k \in DOMAIN disk[p].sd}
        source(k)  == IF dist_shard_name(checkpoint_name, r) \in holding(k)
                      THEN dist_shard_name(checkpoint_name, r)
                      ELSE CHOOSE p \in holding(k) : TRUE
    IN  IF \E k \in wanted : holding(k) = {}
        THEN NotLoaded("raise", "MissingShard")
        ELSE Loaded([k \in wanted |-> disk[source(k)].sd[k]] @@ common, checkpoint_name, FALSE)

\* _load_base_checkpoint(load_dir, rank0, sharded_state_dict, exit_on_missing_checkpoint)
load_base_checkpoint(r, load_dir, rank0, sharded_state_dict, exit_on_missing_checkpoint) ==
    LET tracker_filename == get_checkpoint_tracker_filename(load_dir)
        meta      == read_metadata(tracker_filename)
        base_dir  == get_checkpoint_name(load_dir, meta.iteration, meta.release, TRUE, r)
        rank_file == get_checkpoint_name(load_dir, meta.iteration, meta.release, FALSE, IF rank0 THEN 0 ELSE r)
        is_dist   == check_is_distributed_checkpoint(base_dir)
    IN  IF ~Exists(tracker_filename)
        THEN IF exit_on_missing_checkpoint THEN NotLoaded("exit", "ExitOnMissingCheckpoint")
             ELSE NotLoaded("ok", "NoTracker")
        ELSE IF ~meta.ok THEN NotLoaded("exit", "MalformedTracker")
        ELSE IF is_dist /\ (~rank0 \/ ~Exists(rank_file))
        THEN IF rank0
             THEN Loaded(disk[dist_common_name(base_dir)].sd, base_dir, meta.release)
             ELSE IF sharded_state_dict = None
                  THEN NotLoaded("raise", "DistCheckpointNotRequested")
                  ELSE [dist_checkpointing_load(r, sharded_state_dict, base_dir) EXCEPT !.release = meta.release]
        ELSE IF ~Exists(rank_file) THEN NotLoaded("exit", "CouldNotLoad")
        ELSE Loaded(disk[rank_file].sd, rank_file, meta.release)

\* get_checkpoint_name(..., use_zero2=True): the Zero2 shard of every (dp, cp) rank, dp-major.
zero2_optimizer_names(model_checkpoint_name) ==
    [i \in 1 .. (topo.dp * topo.cp) |->
        get_zero2_optimizer_checkpoint_name(model_checkpoint_name, (i - 1) \div topo.cp, (i - 1) % topo.cp)]

\* load_zero2_optimizer(optimizer_state_dict_names, state_dict)
load_zero2_optimizer(optimizer_state_dict_names, state_dict) ==
    ("optimizer" :> List([i \in DOMAIN optimizer_state_dict_names |-> disk[optimizer_state_dict_names[i]].sd]))
    @@ state_dict

\* torch.load(path) in a process whose sys.modules holds `modules`: the file
\* unpickles only if the modules its pickle names can be found.
Needs(content) == IF HasKey(content, "needs") THEN content.needs ELSE {}
torch_load(path, modules) ==
    IF ~Exists(path) THEN "FileNotFoundError"
    ELSE IF ~(Needs(disk[path]) \subseteq modules) THEN "ModuleNotFoundError"
    ELSE "ok"

\* Lines 457-458 (467-468): the model file, then the optimizer shards in order;
\* the first read that raises ends the attempt.
Zero2Read(model_checkpoint_name, optimizer_state_dict_names, modules) ==
    LET paths  == <<model_checkpoint_name>> \o optimizer_state_dict_names
        failed == {i \in DOMAIN paths : torch_load(paths[i], modules) # "ok"}
    IN  IF failed = {} THEN "ok"
        ELSE torch_load(paths[CHOOSE i \in failed : \A j \in failed : i <= j], modules)

\* Lines 462-466: the three alias assignments, up to the first one whose
\* target is not in sys.modules (KeyError).
InstallAliases(modules) ==
    IF LossScaler \notin modules THEN [ok |-> FALSE, modules |-> modules]
    ELSE IF LegacyModel \notin modules
         THEN [ok |-> FALSE, modules |-> modules \cup {"fp16.loss_scaler", "megatron.fp16.loss_scaler"}]
    ELSE [ok |-> TRUE, modules |-> modules \cup Aliases]

\* Lines 455-475: the try statement.  The handler of ModuleNotFoundError
\* installs the aliases, reads again and pops the aliases; an exception raised
\* inside the handler is not caught by the BaseException clause of the same try.
Zero2Try(model_checkpoint_name, optimizer_state_dict_names, checkpoint_name, release, modules) ==
    LET first     == Zero2Read(model_checkpoint_name, optimizer_state_dict_names, modules)
        installed == InstallAliases(modules)
        second    == Zero2Read(model_checkpoint_name, optimizer_state_dict_names, installed.modules)
        state_dict == load_zero2_optimizer(optimizer_state_dict_names, disk[model_checkpoint_name].sd)
    IN  IF first = "ok"
        THEN [modules |-> modules] @@ Loaded(state_dict, checkpoint_name, release)
        ELSE IF first = "ModuleNotFoundError"
        THEN IF ~installed.ok
             THEN [modules |-> installed.modules] @@ NotLoaded("raise", "KeyError")
             ELSE IF second # "ok"
                  THEN [modules |-> installed.modules] @@ NotLoaded("raise", second)
                  ELSE [modules |-> installed.modules \ Aliases]
                       @@ Loaded(state_dict, checkpoint_name, release)
        ELSE [modules |-> modules] @@ NotLoaded("exit", "CouldNotLoad")

\* _load_zero2_checkpoint(load_dir) on rank r (lines 415-477).
\* Line 445: the assertion that the checkpoint is not in the distributed format fails.
RejectsDistNever(is_dist_ckpt) == FALSE
RejectsDist(is_dist_ckpt) == is_dist_ckpt

load_zero2_checkpoint(r, load_dir, modules) ==
    LET tracker_filename == get_checkpoint_tracker_filename(load_dir)
        meta == read_metadata(tracker_filename)
        checkpoint_name == get_checkpoint_name(load_dir, meta.iteration, meta.release, TRUE, r)
        is_dist_ckpt == check_is_distributed_checkpoint(checkpoint_name)
        model_checkpoint_name == get_checkpoint_name(load_dir, meta.iteration, meta.release, FALSE, r)
        optimizer_state_dict_names == zero2_optimizer_names(model_checkpoint_name)
    IN  IF ~Exists(tracker_filename) THEN [modules |-> modules] @@ NotLoaded("ok", "NoTracker")
        ELSE IF ~meta.ok THEN [modules |-> modules] @@ NotLoaded("exit", "MalformedTracker")
        ELSE IF RejectsDist(is_dist_ckpt) THEN [modules |-> modules] @@ NotLoaded("assert", "Zero2DistFormat")
        ELSE Zero2Try(model_checkpoint_name, optimizer_state_dict_names, checkpoint_name,
                      meta.release, modules)

\* ----------------------------------------------------------- load_checkpoint
\* load_checkpoint on rank r, from its entry to the barrier of line 350, as a
\* function of the disk and of the process state.  The stages below are the
\* blocks of the function in reverse program order; each takes the context c
\* built so far: the args fields assigned (run), the process state (live), the
\* restore calls made (restored), and the function's locals.
\* Bind(v, Op): Op applied to the value of v (v is evaluated once).
Bind(v, Op(_)) == CHOOSE o \in {Op(x) : x \in {v}} : TRUE

Outcome(status, what, c) ==
    [status |-> status, what |-> what, iteration |-> c.iteration, flops |-> c.flops,
     run |-> c.run, live |-> c.live, restored |-> c.restored,
     found |-> c.state_dict # None,
     ckpt_args |-> IF c.state_dict # None /\ HasKey(c.state_dict, "args") THEN c.state_dict.args ELSE None,
     stages |-> c.stages, load_dir |-> c.load_dir, release |-> c.release,
     keys |-> IF c.state_dict # None THEN DOMAIN c.state_dict ELSE {},
     zero2 |-> IF args.use_zero2 /\ c.state_dict # None /\ HasKey(c.state_dict, "optimizer")
               THEN c.state_dict.optimizer ELSE None,
     sharding_type |-> c.sharding_type]

\* Lines 324 and 334: the check for an empty states array passes.
TrackerStatesAccepted(rng_state) == TRUE
TrackerStates(rng_state) == rng_state.rng_tracker_states # <<>>

\* Lines 310-343: rng states.
RestoreRng(rng_state, c) ==
    \* the set-state calls of lines 319-327 (329-337), in order, up to the first missing key
    LET has(k) == HasKey(rng_state, k)
        n == IF ~has("random_rng_state") THEN 0
             ELSE IF ~has("np_rng_state") THEN 1
             ELSE IF ~has("torch_rng_state") THEN 2
             ELSE IF ~has("cuda_rng_state") THEN 3
             ELSE IF ~has("rng_tracker_states") THEN 4
             ELSE IF ~TrackerStates(rng_state) THEN 4
             ELSE 5
        rng1 == [random_rng_state   |-> IF n >= 1 THEN rng_state.random_rng_state ELSE c.live.rng.random_rng_state,
                 np_rng_state       |-> IF n >= 2 THEN rng_state.np_rng_state ELSE c.live.rng.np_rng_state,
                 torch_rng_state    |-> IF n >= 3 THEN rng_state.torch_rng_state ELSE c.live.rng.torch_rng_state,
                 cuda_rng_state     |-> IF n >= 4 THEN rng_state.cuda_rng_state ELSE c.live.rng.cuda_rng_state,
                 rng_tracker_states |-> IF n >= 5 THEN rng_state.rng_tracker_states ELSE c.live.rng.rng_tracker_states]
        calls == {<<"random", "np", "torch", "cuda", "tracker">>[i] : i \in 1 .. n}
        status == IF n = 5 THEN "ok" ELSE "exit"
        what   == IF n = 5 THEN ""
                  ELSE IF n = 4 /\ has("rng_tracker_states") THEN "CorruptRngState"
                  ELSE "MissingRngState"
    IN  Outcome(status, what, [c EXCEPT !.live.rng = rng1, !.restored = @ \cup calls])

AttemptsRngNever(c) == FALSE
AttemptsRngUnlessSuppressed(c) == ~args.no_load_rng
AttemptsRng(c) == ~c.release /\ ~c.run.finetune /\ ~args.no_load_rng

LoadRng(r, c) ==
    IF AttemptsRng(c)
    THEN IF HasKey(c.state_dict, "rng_state")
         THEN LET list == c.state_dict.rng_state
                  index == IF args.data_parallel_random_init THEN get_data_parallel_rank(r) ELSE 0
              IN  IF list = None THEN Outcome("raise", "RngStateNotSubscriptable", c)
                  ELSE IF index + 1 > Len(list.items) THEN Outcome("raise", "RngStateIndex", c)
                  ELSE RestoreRng(list.items[index + 1], c)
         ELSE RestoreRng(c.state_dict, c)           \* backward compatibility
    ELSE Outcome("ok", "", c)

\* optimizer.load_parameter_state(filename): every rank takes its shard of the gathered file.
load_parameter_state(r, filename, c) ==
    IF ~args.optimizer_present THEN Outcome("raise", "NoOptimizer", c)
    ELSE IF ~Exists(filename) THEN Outcome("raise", "NoParameterState", c)
    ELSE IF r \notin DOMAIN disk[filename].shards THEN Outcome("raise", "NoParameterState", c)
    ELSE Outcome("ok", "", [c EXCEPT !.live.param_state = disk[filename].shards[r],
                                     !.restored = @ \cup {"param_state"}])

\* Lines 294-299: scheduler.
LoadSchedulerLenient(r, c) ==
    LET sd == c.state_dict
    IN  IF ~args.scheduler_present \/ ~HasKey(sd, "opt_param_scheduler") THEN LoadRng(r, c)
        ELSE Bind([c EXCEPT !.live.sched = sd.opt_param_scheduler, !.restored = @ \cup {"sched"}],
                  LAMBDA x : LoadRng(r, x))
LoadScheduler(r, c) ==
    LET sd == c.state_dict
    IN  IF ~args.scheduler_present THEN LoadRng(r, c)
        ELSE IF HasKey(sd, "lr_scheduler")                       \* backward compatibility
        THEN Bind([c EXCEPT !.live.sched = sd.lr_scheduler, !.restored = @ \cup {"sched"}],
                  LAMBDA x : LoadRng(r, x))
        ELSE IF HasKey(sd, "opt_param_scheduler")
        THEN Bind([c EXCEPT !.live.sched = sd.opt_param_scheduler, !.restored = @ \cup {"sched"}],
                  LAMBDA x : LoadRng(r, x))
        ELSE Outcome("exit", "MissingOptimizerState", c)

\* Lines 282-292: the distributed optimizer's parameter state; the tracker is
\* read again, into iteration and release.
LoadParameterState(r, c) ==
    IF args.use_distributed_optimizer /\ ~c.is_dist_ckpt
    THEN LET meta == read_metadata(get_checkpoint_tracker_filename(c.load_dir))
             optim_checkpoint_name ==
                 get_distributed_optimizer_checkpoint_name(
                     get_checkpoint_name(c.load_dir, meta.iteration, meta.release, FALSE, r))
         IN  IF ~meta.ok THEN Outcome("exit", "MalformedTracker", c)
             ELSE Bind(load_parameter_state(r, optim_checkpoint_name,
                           [c EXCEPT !.iteration = meta.iteration, !.release = meta.release]),
                       LAMBDA p : IF p.status # "ok" THEN p
                                  ELSE LoadScheduler(r, [c EXCEPT !.iteration = meta.iteration,
                                                                  !.release = meta.release,
                                                                  !.live = p.live,
                                                                  !.restored = p.restored]))
    ELSE LoadScheduler(r, c)

\* Line 273: the optimizer block is entered.
AttemptsOptimizerUnlessSuppressed(c) == ~args.no_load_optim
AttemptsOptimizer(c) == ~c.release /\ ~c.run.finetune /\ ~args.no_load_optim

\* Lines 272-308: optimizer, then parameter state and scheduler.
LoadOptimizer(r, c) ==
    IF AttemptsOptimizer(c)
    THEN IF ~args.optimizer_present THEN LoadParameterState(r, c)
         ELSE IF ~HasKey(c.state_dict, "optimizer") THEN Outcome("exit", "MissingOptimizerState", c)
         ELSE LET own == IF args.use_zero2
                         THEN c.state_dict.optimizer.items[get_data_parallel_rank(r) * topo.cp
                                                           + get_context_parallel_rank(r) + 1]
                         ELSE c.state_dict.optimizer
              IN  Bind([c EXCEPT !.live.optimizer = own, !.restored = @ \cup {"optimizer"}],
                       LAMBDA x : LoadParameterState(r, x))
    ELSE IF (args.fp16 \/ args.bf16) /\ args.optimizer_present
         THEN Bind([c EXCEPT !.restored = @ \cup {"reload_model_params"}], LAMBDA x : LoadRng(r, x))
         ELSE LoadRng(r, c)

\* Lines 223-265: model weights, stage by stage.
LoadModel(r, c) ==
    LET n == args.num_stages
        calls == Stages(n)
        \* the first stage whose key the record lacks ends the pass with a KeyError
        missing == {j \in DOMAIN calls : calls[j].op = "stage" /\ ~HasKey(c.state_dict, calls[j].key)}
        last == IF missing = {} THEN Len(calls)
                ELSE (CHOOSE j \in missing : \A k \in missing : j <= k) - 1
        done == {j \in 1 .. last : calls[j].op = "stage"}
        stage(i) == IF \E j \in done : calls[j].i = i - 1
                    THEN c.state_dict[calls[CHOOSE j \in done : calls[j].i = i - 1].key]
                    ELSE c.live.model[i]
        after == [c EXCEPT !.live.model = [i \in 1 .. n |-> stage(i)],
                           !.stages = @ \o SubSeq(calls, 1, last),
                           !.restored = @ \cup (IF done # {} THEN {"model"} ELSE {})]
    IN  IF args.lora THEN Outcome("raise", "LoraNotImplemented", c)
        ELSE IF missing # {} THEN Outcome("raise", "MissingModelState", after)
        ELSE Bind(after, LAMBDA x : LoadOptimizer(r, x))

\* Lines 209-221: the consumed-sample counters.
CounterOfDefault(checkpoint_args, name) == 0
CounterOf(checkpoint_args, name) == IF HasKey(checkpoint_args, name) THEN checkpoint_args[name] ELSE 0

\* Lines 210-211: the asserts fail.
DoubleLoadNever(c) == FALSE
DoubleLoad(c) == c.run.consumed_train_samples # 0 \/ c.run.consumed_valid_samples # 0

LoadReconcile(r, c) ==
    IF DoubleLoad(c)
    THEN Outcome("assert", "DoubleLoad", c)
    ELSE IF HasKey(c.state_dict, "args") /\ ~c.run.finetune
         THEN Bind([c EXCEPT
                       !.run.consumed_train_samples = CounterOf(c.state_dict.args, "consumed_train_samples"),
                       !.run.consumed_valid_samples = CounterOf(c.state_dict.args, "consumed_valid_samples")],
                   LAMBDA x : LoadModel(r, x))
         ELSE LoadModel(r, c)

\* Lines 194-207: iteration and FLOPs counter.
LoadIteration(r, c) ==
    LET sd == c.state_dict
        flops == IF HasKey(sd, "num_floating_point_operations_so_far")
                 THEN sd.num_floating_point_operations_so_far ELSE 0
        found == c.run.finetune \/ c.release \/ HasKey(sd, "iteration") \/ HasKey(sd, "total_iters")
        iteration == IF c.run.finetune \/ c.release THEN 0
                     ELSE IF HasKey(sd, "iteration") THEN sd.iteration
                     ELSE sd.total_iters                              \* older checkpoints
    IN  IF found
        THEN Bind([c EXCEPT !.iteration = iteration, !.flops = flops], LAMBDA x : LoadReconcile(r, x))
        ELSE Outcome("exit", "MissingIteration", c)

\* Line 187: 'if state_dict is None', the return of (0, 0) at line 189.
ReturnsEarlyNever(state_dict) == FALSE
ReturnsEarly(state_dict) == state_dict = None

\* Lines 181-189: the full record, by the Zero2 path or the base path.
LoadRead(r, c, load_kwargs) ==
    LET got == IF args.use_zero2
               THEN IF load_kwargs # None
                    THEN [modules |-> c.live.modules] @@ NotLoaded("raise", "UnexpectedKeywordArgument")
                    ELSE load_zero2_checkpoint(r, c.load_dir, c.live.modules)
               ELSE IF load_kwargs # None
                    THEN load_base_checkpoint(r, c.load_dir, FALSE, load_kwargs.sharded_state_dict,
                                              load_kwargs.exit_on_missing_checkpoint)
                    ELSE load_base_checkpoint(r, c.load_dir, FALSE, None, FALSE)
    IN  Bind(got, LAMBDA g :
            LET modules == IF HasKey(g, "modules") THEN g.modules ELSE c.live.modules
            IN  IF g.status # "ok" THEN Outcome(g.status, g.what, [c EXCEPT !.live.modules = modules])
                ELSE IF ReturnsEarly(g.state_dict) THEN Outcome("none", g.what, c)
                ELSE LoadIteration(r, [c EXCEPT !.state_dict = g.state_dict,
                                                !.checkpoint_name = g.checkpoint_name,
                                                !.release = g.release,
                                                !.live.modules = modules]))

\* Line 169: the (TP, PP) mismatch that the distributed optimizer cannot load.
MismatchFatalNever(mismatch, release, c) == FALSE
MismatchFatal(mismatch, release, c) ==
    mismatch /\ ~release /\ ~c.run.finetune /\ ~args.no_load_optim /\ args.use_distributed_optimizer

\* Lines 152-179: the format gate.
\* Lines 175-177: the flag that selects the optimizer's sharding type at load.
FullyParallelLive(ckpt_args) == args.ckpt_fully_parallel_save
FullyParallel(ckpt_args) ==
    IF HasKey(ckpt_args, "ckpt_fully_parallel_save") THEN ckpt_args.ckpt_fully_parallel_save ELSE FALSE

\* optimizer.sharded_state_dict(state_dict, **optim_sd_kwargs) of line 389: the
\* sharding type the call was given, if the call was made and given one.
ShardingTypeOf(state_dict) ==
    IF /\ HasKey(state_dict, "optimizer")
       /\ HasKey(state_dict.optimizer, "opts")
       /\ HasKey(state_dict.optimizer.opts, "sharding_type")
    THEN state_dict.optimizer.opts.sharding_type
    ELSE "none"

LoadGate(r, c) ==
    IF args.auto_detect_ckpt_format \/ args.use_dist_ckpt
    THEN Bind(load_base_checkpoint(r, c.load_dir, TRUE, None, args.exit_on_missing_checkpoint),
              LAMBDA peek :
         LET is_dist_ckpt == peek.status = "ok" /\ peek.state_dict # None
                             /\ check_is_distributed_checkpoint(peek.checkpoint_name)
             ckpt_args  == peek.state_dict.args
             ckpt_tp_pp == <<ckpt_args.tensor_model_parallel_size, ckpt_args.pipeline_model_parallel_size>>
             run_tp_pp  == <<topo.tp, topo.pp>>
             no_save_rng == IF HasKey(ckpt_args, "no_save_rng") THEN ckpt_args.no_save_rng ELSE FALSE
             rng_state  == IF ckpt_tp_pp = run_tp_pp /\ ~no_save_rng
                           THEN get_rng_state(r, TRUE) ELSE None
             fully      == FullyParallel(ckpt_args)
             optim_sd_kwargs ==
                 IF args.use_distributed_optimizer
                 THEN [is_loading |-> TRUE,
                       sharding_type |-> IF fully THEN "fully_sharded_bucket_space"
                                         ELSE "dp_zero_gather_scatter"]
                 ELSE [is_loading |-> TRUE]
             load_kwargs ==
                 [sharded_state_dict |->
                      generate_state_dict(ArgsSnapshot(r), c.live.model, OptimizerOf(r), SchedulerOf(r),
                                          rng_state, args.use_dist_ckpt, <<>>, optim_sd_kwargs),
                  exit_on_missing_checkpoint |-> args.exit_on_missing_checkpoint]
         IN  IF peek.status # "ok" THEN Outcome(peek.status, peek.what, c)
             ELSE IF ~is_dist_ckpt THEN LoadRead(r, c, None)
             ELSE IF ~HasKey(peek.state_dict, "args") THEN Outcome("raise", "MissingArgs", c)
             ELSE IF MismatchFatal(ckpt_tp_pp # run_tp_pp, peek.release, c)
                  THEN Outcome("raise", "ParallelismMismatch", c)
             ELSE Bind(load_kwargs, LAMBDA kw :
                      LoadRead(r, [c EXCEPT !.is_dist_ckpt = TRUE,
                                            !.stages = @ \o Stages(args.num_stages),
                                            !.sharding_type = ShardingTypeOf(kw.sharded_state_dict)], kw)))
    ELSE LoadRead(r, c, None)

\* Line 142: the pretrained directory is used instead of the load directory.
UsesPretrainedWhenSet(load_dir) == args.pretrained_checkpoint # "None"
UsesPretrained(load_dir) == args.pretrained_checkpoint # "None" /\ ~checkpoint_exists(load_dir)

\* Line 147: 'args.finetune = True' after the fallback.
KeepsFinetune(finetune) == finetune
SetsFinetune(finetune) == TRUE

\* Lines 137-147: the load directory, or the pretrained one to finetune from.
load_checkpoint(r) ==
    LET load_dir == RootOf(args.load)
        pretrained_dir == RootOf(args.pretrained_checkpoint)
        fallback == UsesPretrained(load_dir)
        c0 == [run |-> run[r], live |-> live[r], restored |-> {}, load_dir |-> load_dir,
               state_dict |-> None, checkpoint_name |-> <<>>, release |-> FALSE,
               iteration |-> 0, flops |-> 0, is_dist_ckpt |-> FALSE, stages |-> <<>>,
               sharding_type |-> "none"]
    IN  IF fallback
        THEN IF ~checkpoint_exists(pretrained_dir)
             THEN Outcome("raise", "NoCheckpointFound", c0)
             ELSE Bind([c0 EXCEPT !.load_dir = pretrained_dir, !.run.finetune = SetsFinetune(@)],
                       LAMBDA x : LoadGate(r, x))
        ELSE Bind(c0, LAMBDA x : LoadGate(r, x))

\* The caller reaches load_checkpoint(model, optimizer, opt_param_scheduler) on every rank.
CallLoad ==
    /\ AllIdle
    /\ Len(history) < MaxCalls
    /\ call' = [op |-> "load", iteration |-> 0, flops |-> 0]
    /\ pc' = [r \in Ranks |-> "l_body"]
    /\ ret' = [r \in Ranks |-> Entered(r)]
    /\ history' = Append(history, [op |-> "load", iteration |-> 0, flops |-> 0,
                                    rng |-> [r \in Ranks |-> live[r].rng]])
    /\ written' = {}
    /\ barriers' = [r \in Ranks |-> 0]
    /\ UNCHANGED <<topo, args, run, live, disk, clock, logger, dirs>>

\* Lines 137-343 on rank r.  A load that finds no checkpoint returns (0, 0) at
\* line 189; a fatal error ends the process; otherwise the rank goes on to the
\* barrier.
LoadBody(r) ==
    /\ pc[r] = "l_body"
    /\ \E o \in {load_checkpoint(r)} :
           /\ run' = [run EXCEPT ![r] = o.run]
           /\ live' = [live EXCEPT ![r] = o.live]
           /\ ret' = [ret EXCEPT ![r] =
                        [status   |-> CASE o.status = "ok"   -> "restored"
                                        [] o.status = "none" -> "loaded"
                                        [] OTHER             -> o.status,
                         what     |-> o.what,
                         iteration |-> IF o.status = "ok" THEN o.iteration ELSE 0,
                         flops    |-> IF o.status = "ok" THEN o.flops ELSE 0,
                         restored |-> o.restored,
                         entry    |-> run[r],
                         found    |-> o.found,
                         ckpt_args |-> o.ckpt_args,
                         prev     |-> ret[r].prev,
                         stages   |-> o.stages,
                         load_dir |-> o.load_dir,
                         release  |-> o.release,
                         keys     |-> o.keys,
                         zero2    |-> o.zero2,
                         sharding_type |-> o.sharding_type]]
           /\ pc' = [pc EXCEPT ![r] = CASE o.status = "ok"   -> "l_barrier"
                                        [] o.status = "none" -> "idle"
                                        [] OTHER             -> "dead"]
    /\ UNCHANGED <<topo, args, disk, call, clock, history, written, barriers, logger, dirs>>

\* Lines 349-358: the trailing barrier and the return of (iteration, flops).
LoadBarrier(r) ==
    /\ pc[r] = "l_barrier"
    /\ barrier(r, "l_barrier")
    /\ pc' = [pc EXCEPT ![r] = "idle"]
    /\ ret' = [ret EXCEPT ![r].status = "loaded"]
    /\ barriers' = [barriers EXCEPT ![r] = @ + (IF EntersBarrier(r) THEN 1 ELSE 0)]
    /\ UNCHANGED <<topo, args, run, live, disk, call, clock, history, written, logger, dirs>>

\* ------------------------------------------------------------------ the job
FreshRun == [finetune |-> args.finetune, consumed_train_samples |-> 0, consumed_valid_samples |-> 0]

\* One training step with its evaluation on every rank: new weights, optimizer,
\* scheduler and generator states, and more samples consumed.
Train ==
    /\ AllIdle
    /\ clock < MaxClock
    /\ clock' = clock + 1
    /\ live' = [r \in Ranks |-> [LiveAt(r, clock + 1) EXCEPT !.modules = live[r].modules]]
    /\ run' = [r \in Ranks |-> [run[r] EXCEPT !.consumed_train_samples = @ + 1,
                                              !.consumed_valid_samples = @ + 2]]
    /\ UNCHANGED <<topo, args, disk, pc, call, ret, history, written, barriers, logger, dirs>>

\* The job is started again with the same arguments, after it ended or died.
Restart ==
    /\ AllIdle \/ \E r \in Ranks : pc[r] = "dead"
    /\ call.op # "none"
    /\ pc' = [r \in Ranks |-> "idle"]
    /\ run' = [r \in Ranks |-> FreshRun]
    /\ live' = [r \in Ranks |-> LiveAt(r, 0)]
    /\ ret' = [r \in Ranks |-> NoRet]
    /\ call' = [op |-> "none", iteration |-> 0, flops |-> 0]
    /\ written' = {}
    /\ barriers' = [r \in Ranks |-> 0]
    /\ UNCHANGED <<topo, args, disk, clock, history, logger, dirs>>

\* After a save, the job is started again on topology t with arguments a, over
\* the checkpoints it left on disk.
Relaunch(t, a) ==
    /\ AllIdle \/ \E r \in Ranks : pc[r] = "dead"
    /\ history # <<>> /\ history[Len(history)].op = "save"
    /\ Len(history) < MaxCalls
    /\ topo' = t
    /\ args' = a
    /\ pc' = [r \in Ranks' |-> "idle"]
    /\ run' = [r \in Ranks' |-> FreshRun']
    /\ live' = [r \in Ranks' |-> LiveAt(r, 0)']
    /\ ret' = [r \in Ranks' |-> NoRet]
    /\ call' = [op |-> "none", iteration |-> 0, flops |-> 0]
    /\ history' = Append(history, [op |-> "launch", iteration |-> 0, flops |-> 0, rng |-> <<>>])
    /\ written' = {}
    /\ barriers' = [r \in Ranks' |-> 0]
    /\ UNCHANGED <<disk, clock, logger, dirs>>

\* ------------------------------------------------------------ specification
DefaultArgs ==
    [save |-> "ckpt", load |-> "ckpt", pretrained_checkpoint |-> "None",
     use_dist_ckpt |-> FALSE, auto_detect_ckpt_format |-> FALSE,
     use_distributed_optimizer |-> FALSE, use_zero2 |-> FALSE,
     no_save_optim |-> FALSE, no_save_rng |-> FALSE,
     no_load_optim |-> FALSE, no_load_rng |-> FALSE,
     finetune |-> FALSE, exit_on_missing_checkpoint |-> FALSE,
     data_parallel_random_init |-> FALSE, ckpt_fully_parallel_save |-> FALSE,
     fp16 |-> FALSE, bf16 |-> FALSE, lora |-> FALSE, legacy_modules |-> LegacyTargets,
     optimizer_present |-> TRUE, scheduler_present |-> TRUE, num_stages |-> 1]

Topologies ==
    {t \in [tp : 1 .. MaxWorld, pp : 1 .. MaxWorld, dp : 1 .. MaxWorld, cp : 1 .. MaxWorld,
            initialized : BOOLEAN] :
        /\ t.tp * t.pp * t.dp * t.cp <= MaxWorld
        /\ ~t.initialized => t.tp * t.pp * t.dp * t.cp = 1}

\* The save flags that select what is written and where.
SaveArgs ==
    {[DefaultArgs EXCEPT !.use_dist_ckpt = a, !.use_distributed_optimizer = b, !.use_zero2 = c] :
        a \in BOOLEAN, b \in BOOLEAN, c \in BOOLEAN}

\* The log of a job that has not called log_training_infos.
NoLog == [interval |-> 1, iteration |-> 0, total_loss_dict |-> EmptyDict, status |-> "ok", calls |-> 0,
          last |-> [called |-> FALSE, emitted |-> FALSE, advanced |-> 0, skipped |-> 0, nan |-> 0, calls |-> 0]]

StartWith(topologies, argsets, disks) ==
    /\ topo \in topologies
    /\ args \in argsets
    /\ disk \in disks
    /\ dirs = DirsOf(disk)
    /\ run = [r \in Ranks |-> FreshRun]
    /\ live = [r \in Ranks |-> LiveAt(r, 0)]
    /\ pc = [r \in Ranks |-> "idle"]
    /\ call = [op |-> "none", iteration |-> 0, flops |-> 0]
    /\ ret = [r \in Ranks |-> NoRet]
    /\ clock = 0
    /\ history = <<>>
    /\ written = {}
    /\ barriers = [r \in Ranks |-> 0]

InitWith(topologies, argsets, disks) ==
    /\ logger = NoLog
    /\ StartWith(topologies, argsets, disks)

Init == InitWith(Topologies, SaveArgs, {EmptyDict})

Next ==
    \/ \E i \in 1 .. MaxIter : CallSave(i, 10 * i)
    \/ \E r \in Ranks : SaveDistOptim(r)
    \/ \E r \in Ranks : SaveZero2(r)
    \/ \E r \in Ranks : SaveModel(r)
    \/ \E r \in Ranks : SaveBarrier1(r)
    \/ \E r \in Ranks : SaveTracker(r)
    \/ \E r \in Ranks : SaveBarrier2(r)
    \/ CallLoad
    \/ \E r \in Ranks : LoadBody(r)
    \/ \E r \in Ranks : LoadBarrier(r)
    \/ Train
    \/ Restart

Spec == Init /\ [][Next]_vars

\* A job trains, saves one checkpoint, and is started again on any topology
\* with any load flags to load it.
FirstArgs ==
    {[DefaultArgs EXCEPT !.use_dist_ckpt = a, !.use_distributed_optimizer = b] :
        a \in BOOLEAN, b \in BOOLEAN}

LaunchArgs ==
    {[DefaultArgs EXCEPT !.use_dist_ckpt = a, !.use_distributed_optimizer = b,
                         !.no_load_optim = c, !.no_load_rng = d, !.finetune = e] :
        a \in BOOLEAN, b \in BOOLEAN, c \in BOOLEAN, d \in BOOLEAN, e \in BOOLEAN}

LoadInit == InitWith(Topologies, FirstArgs, {EmptyDict})

LoadNext ==
    \/ \E i \in 1 .. MaxIter : history = <<>> /\ CallSave(i, 10 * i)
    \/ \E r \in Ranks : SaveDistOptim(r)
    \/ \E r \in Ranks : SaveZero2(r)
    \/ \E r \in Ranks : SaveModel(r)
    \/ \E r \in Ranks : SaveBarrier1(r)
    \/ \E r \in Ranks : SaveTracker(r)
    \/ \E r \in Ranks : SaveBarrier2(r)
    \/ CallLoad
    \/ \E r \in Ranks : LoadBody(r)
    \/ \E r \in Ranks : LoadBarrier(r)
    \/ history = <<>> /\ Train
    \/ \E t \in Topologies, a \in LaunchArgs : Relaunch(t, a)

LoadSpec == LoadInit /\ [][LoadNext]_vars

\* Checkpoint trees the job did not write itself: released weights and the
\* checkpoints of older versions, in the monolithic format.  A tree is described
\* by what its tracker and its records hold:
\*   release   the tracker holds the release marker (else iteration 1)
\*   iter, n   the records carry n under "iteration" or "total_iters", or neither
\*   optimizer the records carry "optimizer"
\*   sched     the key of the scheduler state, or "none"
\*   rng       "list": under "rng_state"; "flat": the older top-level keys;
\*             "empty": "rng_state" with no tracker states; "none"
ForeignStamp == MaxClock + 1
ForeignOptions ==
    {o \in [release : BOOLEAN, iter : {"iteration", "total_iters", "none"}, n : {1, 2},
            optimizer : BOOLEAN, sched : {"opt_param_scheduler", "lr_scheduler", "none"},
            rng : {"list", "flat", "empty", "none"}] :
        \/ o.iter = "iteration"
        \/ o.iter = "total_iters" /\ o.n = 2
        \/ o.iter = "none" /\ o.n = 1}

ForeignArgs ==
    [tensor_model_parallel_size |-> topo.tp, pipeline_model_parallel_size |-> topo.pp,
     consumed_train_samples |-> 3, consumed_valid_samples |-> 4]

ForeignRecord(o, r) ==
    LET rng == RngAt(ForeignStamp, RngKeyOf(r))
    IN  ("args" :> ForeignArgs)
        @@ ("model" :> Val("model", ForeignStamp, ModelKeyOf(r)))
        @@ ("num_floating_point_operations_so_far" :> 50)
        @@ (IF o.iter = "none" THEN EmptyDict ELSE (o.iter :> o.n))
        @@ (IF o.optimizer THEN ("optimizer" :> Val("optimizer", ForeignStamp, ModelKeyOf(r))) ELSE EmptyDict)
        @@ (IF o.sched = "none" THEN EmptyDict ELSE (o.sched :> Val("sched", ForeignStamp, ModelKeyOf(r))))
        @@ (CASE o.rng = "list"  -> ("rng_state" :> List(<<rng>>))
              [] o.rng = "empty" -> ("rng_state" :> List(<<[rng EXCEPT !.rng_tracker_states = <<>>]>>))
              [] o.rng = "flat"  -> rng
              [] OTHER           -> EmptyDict)

ForeignTree(root, o) ==
    LET name(r)  == get_checkpoint_name(root, 1, o.release, FALSE, r)
        optim(r) == get_distributed_optimizer_checkpoint_name(name(r))
        owner(p) == CHOOSE r \in Ranks : p \in {name(r), optim(r)}
    IN  (get_checkpoint_tracker_filename(root) :> (IF o.release THEN "release" ELSE str(1)))
        @@ [p \in {name(r) : r \in Ranks} |-> [kind |-> "torch", sd |-> ForeignRecord(o, owner(p))]]
        @@ [p \in {optim(r) : r \in Ranks} |->
               [kind |-> "param_state",
                shards |-> [q \in {x \in Ranks : ModelKeyOf(x) = ModelKeyOf(owner(p))} |->
                               Val("param_state", ForeignStamp, ShardKeyOf(q))]]]

\* A job is started on a foreign tree, with any load flags, and loads it.
LegacyTopologies == {t \in Topologies : t.pp = 1 /\ t.cp = 1}
LegacyArgs ==
    {[DefaultArgs EXCEPT !.use_distributed_optimizer = a, !.no_load_optim = b, !.no_load_rng = c,
                         !.finetune = d, !.fp16 = e] :
        a \in BOOLEAN, b \in BOOLEAN, c \in BOOLEAN, d \in BOOLEAN, e \in BOOLEAN}

LegacyInit == InitWith(LegacyTopologies, LegacyArgs, {ForeignTree(RootOf(args.load), o) : o \in ForeignOptions})

LegacyNext ==
    \/ history = <<>> /\ CallLoad
    \/ \E r \in Ranks : LoadBody(r)
    \/ \E r \in Ranks : LoadBarrier(r)

LegacySpec == LegacyInit /\ [][LegacyNext]_vars

\* A job is started with or without a pretrained checkpoint to finetune from,
\* over a load directory and a pretrained directory that each hold a
\* checkpoint or nothing, and loads.
PretrainedOptions ==
    {o \in ForeignOptions : /\ o.iter = "iteration" /\ o.n = 1 /\ o.optimizer
                            /\ o.sched = "opt_param_scheduler" /\ o.rng = "list"}
FinetuneArgs ==
    {[DefaultArgs EXCEPT !.pretrained_checkpoint = a, !.finetune = b, !.no_load_optim = c,
                         !.use_distributed_optimizer = d] :
        a \in {"None", "pretrained"}, b \in BOOLEAN, c \in BOOLEAN, d \in BOOLEAN}
FinetuneDisks ==
    {a @@ b : a \in {EmptyDict} \cup {ForeignTree(RootOf(args.load), o) : o \in PretrainedOptions},
              b \in {EmptyDict} \cup {ForeignTree(RootOf("pretrained"), o) : o \in PretrainedOptions}}

FinetuneInit == InitWith(Topologies, FinetuneArgs, FinetuneDisks)

FinetuneNext ==
    \/ CallLoad
    \/ \E r \in Ranks : LoadBody(r)
    \/ \E r \in Ranks : LoadBarrier(r)
    \/ Restart

FinetuneSpec == FinetuneInit /\ [][FinetuneNext]_vars

\* A job of one to MaxStages stages per rank, with any combination of the
\* flags and objects that select the entries of the record, trains, saves,
\* and loads what it saved (in the same process, or started again).
BuildArgs ==
    {[DefaultArgs EXCEPT !.num_stages = n, !.use_dist_ckpt = a, !.use_zero2 = b,
                         !.no_save_optim = c, !.no_save_rng = d,
                         !.optimizer_present = e, !.scheduler_present = f] :
        n \in 1 .. MaxStages, a \in BOOLEAN, b \in BOOLEAN, c \in BOOLEAN, d \in BOOLEAN,
        e \in BOOLEAN, f \in BOOLEAN}

BuildInit == InitWith(Topologies, BuildArgs, {EmptyDict})

BuildNext ==
    \/ history = <<>> /\ Train
    \/ history = <<>> /\ CallSave(1, 10)
    \/ \E r \in Ranks : SaveDistOptim(r)
    \/ \E r \in Ranks : SaveZero2(r)
    \/ \E r \in Ranks : SaveModel(r)
    \/ \E r \in Ranks : SaveBarrier1(r)
    \/ \E r \in Ranks : SaveTracker(r)
    \/ \E r \in Ranks : SaveBarrier2(r)
    \/ call.op = "save" /\ Restart
    \/ Len(history) = 1 /\ CallLoad
    \/ \E r \in Ranks : LoadBody(r)
    \/ \E r \in Ranks : LoadBarrier(r)

BuildSpec == BuildInit /\ [][BuildNext]_vars

\* A Zero2 job of up to MaxShardAxis data-parallel and MaxShardAxis
\* context-parallel ranks (and up to two tensor-parallel ranks) trains, saves,
\* and loads what it saved.
Zero2Topologies ==
    {t \in [tp : 1 .. 2, pp : {1}, dp : 1 .. MaxShardAxis, cp : 1 .. MaxShardAxis, initialized : {TRUE}] :
        t.tp = 1 \/ t.dp * t.cp <= 2}
Zero2Args == {[DefaultArgs EXCEPT !.use_zero2 = TRUE, !.use_dist_ckpt = a] : a \in BOOLEAN}

Zero2Init == InitWith(Zero2Topologies, Zero2Args, {EmptyDict})

Zero2Next ==
    \/ history = <<>> /\ Train
    \/ history = <<>> /\ CallSave(1, 10)
    \/ \E r \in Ranks : SaveDistOptim(r)
    \/ \E r \in Ranks : SaveZero2(r)
    \/ \E r \in Ranks : SaveModel(r)
    \/ \E r \in Ranks : SaveBarrier1(r)
    \/ \E r \in Ranks : SaveTracker(r)
    \/ \E r \in Ranks : SaveBarrier2(r)
    \/ call.op = "save" /\ Restart
    \/ Len(history) = 1 /\ CallLoad
    \/ \E r \in Ranks : LoadBody(r)
    \/ \E r \in Ranks : LoadBarrier(r)

Zero2Spec == Zero2Init /\ [][Zero2Next]_vars

\* Zero2 checkpoint trees written by other versions of the program: the model
\* files and the optimizer shards were pickled by the current module layout
\* ("current"), by an older layout that the aliases of lines 462-466 resolve
\* ("legacy"), or by one that nothing resolves ("unknown"); a shard may also be
\* missing.
Zero2ForeignOptions ==
    [model : {"current", "legacy", "unknown"}, shards : {"current", "legacy", "unknown", "missing"}]
PickledBy(layout, alias) ==
    CASE layout = "legacy"  -> {alias}
      [] layout = "unknown" -> {"removed.module"}
      [] OTHER              -> {}

Zero2ForeignTree(root, o) ==
    LET record(r) == ForeignRecord([release |-> FALSE, iter |-> "iteration", n |-> 1, optimizer |-> FALSE,
                                    sched |-> "opt_param_scheduler", rng |-> "list"], r)
        name(r)  == get_checkpoint_name(root, 1, FALSE, FALSE, r)
        shard(r) == get_zero2_optimizer_checkpoint_name(name(r), get_data_parallel_rank(r),
                                                        get_context_parallel_rank(r))
        owner(p) == CHOOSE r \in Ranks : p \in {name(r), shard(r)}
    IN  (get_checkpoint_tracker_filename(root) :> str(1))
        @@ [p \in {name(r) : r \in Ranks} |->
               [kind |-> "torch", sd |-> record(owner(p)), needs |-> PickledBy(o.model, "megatron.model")]]
        @@ [p \in (IF o.shards = "missing" THEN {} ELSE {shard(r) : r \in Ranks}) |->
               [kind |-> "zero2", sd |-> Val("optimizer", ForeignStamp, ShardKeyOf(owner(p))),
                needs |-> PickledBy(o.shards, "fp16.loss_scaler")]]

\* A Zero2 job is started on such a tree, with any of the legacy modules
\* imported or not, and loads it.
AliasTopologies == {t \in Topologies : t.tp = 1 /\ t.pp = 1}
AliasArgs == {[DefaultArgs EXCEPT !.use_zero2 = TRUE, !.legacy_modules = m] : m \in SUBSET LegacyTargets}

AliasInit ==
    InitWith(AliasTopologies, AliasArgs, {Zero2ForeignTree(RootOf(args.load), o) : o \in Zero2ForeignOptions})

AliasNext ==
    \/ CallLoad
    \/ \E r \in Ranks : LoadBody(r)
    \/ \E r \in Ranks : LoadBarrier(r)
    \/ Restart

AliasSpec == AliasInit /\ [][AliasNext]_vars

\* Checkpoint trees whose generator snapshot is whole, lacks one of its keys, or
\* has an empty tracker-states array, stored per data-parallel rank under
\* 'rng_state' or flat in the record (older checkpoints).
GeneratorKeys == {"random_rng_state", "np_rng_state", "torch_rng_state", "cuda_rng_state", "rng_tracker_states"}
RngShapes ==
    [release : BOOLEAN, container : {"list", "flat"}, lacks : GeneratorKeys \cup {"nothing"},
     tracker : {"full", "empty"}]
Without(f, k) == [x \in DOMAIN f \ {k} |-> f[x]]
RngSnapshot(o, k) ==
    LET rng == RngAt(ForeignStamp, k)
    IN  Without(IF o.tracker = "empty" THEN [rng EXCEPT !.rng_tracker_states = <<>>] ELSE rng, o.lacks)

RngRecord(o, r) ==
    LET base == ForeignRecord([release |-> o.release, iter |-> "iteration", n |-> 1, optimizer |-> TRUE,
                               sched |-> "opt_param_scheduler", rng |-> "none"], r)
        key(d) == <<get_tensor_model_parallel_rank(r), get_pipeline_model_parallel_rank(r), d, 0>>
    IN  IF o.container = "list"
        THEN ("rng_state" :> List([d \in 1 .. topo.dp |-> RngSnapshot(o, key(d - 1))])) @@ base
        ELSE RngSnapshot(o, RngKeyOf(r)) @@ base

RngTree(root, o) ==
    LET name(r)  == get_checkpoint_name(root, 1, o.release, FALSE, r)
        owner(p) == CHOOSE r \in Ranks : p = name(r)
    IN  (get_checkpoint_tracker_filename(root) :> (IF o.release THEN "release" ELSE str(1)))
        @@ [p \in {name(r) : r \in Ranks} |-> [kind |-> "torch", sd |-> RngRecord(o, owner(p))]]

\* A job is started on such a tree, with any of the flags that decide whether
\* and from which list entry the generators are restored, and loads it.
RngArgs ==
    {[DefaultArgs EXCEPT !.no_load_rng = a, !.finetune = b, !.data_parallel_random_init = c] :
        a \in BOOLEAN, b \in BOOLEAN, c \in BOOLEAN}

RngInit == InitWith(LegacyTopologies, RngArgs, {RngTree(RootOf(args.load), o) : o \in RngShapes})

RngNext ==
    \/ history = <<>> /\ CallLoad
    \/ \E r \in Ranks : LoadBody(r)
    \/ \E r \in Ranks : LoadBarrier(r)

RngSpec == RngInit /\ [][RngNext]_vars

\* A job saves one checkpoint in either format and is started again as a Zero2
\* job, with any of the flags that select the load path, to load it.
Zero2LaunchArgs ==
    {[DefaultArgs EXCEPT !.use_zero2 = TRUE, !.use_dist_ckpt = a, !.auto_detect_ckpt_format = b,
                         !.use_distributed_optimizer = c, !.finetune = d] :
        a \in BOOLEAN, b \in BOOLEAN, c \in BOOLEAN, d \in BOOLEAN}

Zero2FirstArgs ==
    {[DefaultArgs EXCEPT !.use_dist_ckpt = a, !.use_zero2 = b] : a \in BOOLEAN, b \in BOOLEAN}

Zero2LoadInit == InitWith(Topologies, Zero2FirstArgs, {EmptyDict})

Zero2LoadNext ==
    \/ \E i \in 1 .. MaxIter : history = <<>> /\ CallSave(i, 10 * i)
    \/ \E r \in Ranks : SaveDistOptim(r)
    \/ \E r \in Ranks : SaveZero2(r)
    \/ \E r \in Ranks : SaveModel(r)
    \/ \E r \in Ranks : SaveBarrier1(r)
    \/ \E r \in Ranks : SaveTracker(r)
    \/ \E r \in Ranks : SaveBarrier2(r)
    \/ CallLoad
    \/ \E r \in Ranks : LoadBody(r)
    \/ \E r \in Ranks : LoadBarrier(r)
    \/ \E t \in Topologies, a \in Zero2LaunchArgs : Relaunch(t, a)

Zero2LoadSpec == Zero2LoadInit /\ [][Zero2LoadNext]_vars

\* A job saves one checkpoint in the distributed format, with either optimizer
\* and either value of ckpt_fully_parallel_save, and is started again with any
\* value of that flag to load it.
ShardingFirstArgs ==
    {[DefaultArgs EXCEPT !.use_dist_ckpt = TRUE, !.use_distributed_optimizer = a,
                         !.ckpt_fully_parallel_save = b] : a \in BOOLEAN, b \in BOOLEAN}
ShardingLaunchArgs ==
    {[DefaultArgs EXCEPT !.use_dist_ckpt = a, !.auto_detect_ckpt_format = b,
                         !.use_distributed_optimizer = c, !.ckpt_fully_parallel_save = d] :
        a \in BOOLEAN, b \in BOOLEAN, c \in BOOLEAN, d \in BOOLEAN}

ShardingInit == InitWith(Topologies, ShardingFirstArgs, {EmptyDict})

ShardingNext ==
    \/ \E i \in 1 .. MaxIter : history = <<>> /\ CallSave(i, 10 * i)
    \/ \E r \in Ranks : SaveDistOptim(r)
    \/ \E r \in Ranks : SaveZero2(r)
    \/ \E r \in Ranks : SaveModel(r)
    \/ \E r \in Ranks : SaveBarrier1(r)
    \/ \E r \in Ranks : SaveTracker(r)
    \/ \E r \in Ranks : SaveBarrier2(r)
    \/ CallLoad
    \/ \E r \in Ranks : LoadBody(r)
    \/ \E r \in Ranks : LoadBarrier(r)
    \/ \E t \in Topologies, a \in ShardingLaunchArgs : Relaunch(t, a)

ShardingSpec == ShardingInit /\ [][ShardingNext]_vars

\* ------------------------------------------------------- log_training_infos
\* A float tensor: its value, or not a number / infinite.
Scalar(v) == [v |-> v, nan |-> FALSE]
NaN == [v |-> 0, nan |-> TRUE]
Plus(a, b) == [v |-> a.v + b.v, nan |-> a.nan \/ b.nan]
get(d, k, default) == IF k \in DOMAIN d THEN d[k] ELSE default       \* dict.get
Put(d, k, v) == (k :> v) @@ d                                        \* d[k] = v

advanced_iters_key == "advanced iterations"
skipped_iters_key  == "skipped iterations"
nan_iters_key      == "nan iterations"
CounterKeys == {advanced_iters_key, skipped_iters_key, nan_iters_key}

\* The loss_dict of one training step: one or two named losses.
LossDicts == UNION {[K -> {Scalar(1), NaN}] : K \in {{"loss"}, {"loss", "lm loss"}, {"lm loss"}}}

\* Lines 46-69: the counters and the loss accumulators after this call's step.
Counted(loss_dict, total_loss_dict, skipped_iter) ==
    LET t1 == Put(total_loss_dict, advanced_iters_key,
                  Scalar(get(total_loss_dict, advanced_iters_key, Scalar(0)).v
                         + (IF skipped_iter = 0 THEN 1 ELSE 0)))
        t2 == Put(t1, skipped_iters_key, Scalar(get(t1, skipped_iters_key, Scalar(0)).v + skipped_iter))
        t3 == IF skipped_iter = 0
              THEN [k \in DOMAIN loss_dict |-> Plus(get(t2, k, Scalar(0)), loss_dict[k])] @@ t2
              ELSE t2
        got_nan == skipped_iter # 0 /\ \E k \in DOMAIN loss_dict : loss_dict[k].nan
    IN  Put(t3, nan_iters_key, Scalar(get(t3, nan_iters_key, Scalar(0)).v + (IF got_nan THEN 1 ELSE 0)))

\* Line 193.
Emits(iteration, log_interval) == iteration % log_interval = 0

\* Lines 193-254, with learning_rate a number, decoupled_lr unset and no
\* tensorboard writer: the loss accumulators are cleared (219-226), loss_dict["loss"]
\* is read (238), the counters are cleared (241-243) and the line is printed (244).
log_training_infos(loss_dict, total_loss_dict, iteration, skipped_iter, log_interval) ==
    LET t == Counted(loss_dict, total_loss_dict, skipped_iter)
        averaged == [k \in DOMAIN t |-> IF k \in CounterKeys THEN t[k] ELSE Scalar(0)]
        report == [advanced |-> t[advanced_iters_key].v, skipped |-> t[skipped_iters_key].v,
                   nan |-> t[nan_iters_key].v]
    IN  IF ~Emits(iteration, log_interval)
        THEN [status |-> "ok", emitted |-> FALSE, total_loss_dict |-> t, report |-> report]
        ELSE IF "loss" \notin DOMAIN loss_dict
        THEN [status |-> "raise", emitted |-> FALSE, total_loss_dict |-> averaged, report |-> report]
        ELSE [status |-> "ok", emitted |-> TRUE, report |-> report,
              total_loss_dict |-> [k \in DOMAIN t |-> Scalar(0)]]

\* The training loop calls log_training_infos after every step, with the step's
\* losses and whether the step was skipped; an exception ends the job.
LogTrainingInfos ==
    /\ logger.status = "ok"
    /\ logger.iteration < MaxLogCalls
    /\ \E loss_dict \in LossDicts, skipped_iter \in {0, 1} :
           \E o \in {log_training_infos(loss_dict, logger.total_loss_dict, logger.iteration + 1,
                                         skipped_iter, logger.interval)} :
               logger' = [interval |-> logger.interval,
                          iteration |-> logger.iteration + 1,
                          total_loss_dict |-> o.total_loss_dict,
                          status |-> o.status,
                          calls |-> IF o.emitted THEN 0 ELSE logger.calls + 1,
                          last |-> [called |-> TRUE, emitted |-> o.emitted,
                                    advanced |-> o.report.advanced, skipped |-> o.report.skipped,
                                    nan |-> o.report.nan, calls |-> logger.calls + 1]]
    /\ UNCHANGED <<topo, args, run, live, disk, pc, call, ret, clock, history, written, barriers, dirs>>

LogInit ==
    /\ logger \in {[NoLog EXCEPT !.interval = n] : n \in 1 .. MaxInterval}
    /\ StartWith({[tp |-> 1, pp |-> 1, dp |-> 1, cp |-> 1, initialized |-> FALSE]}, {DefaultArgs}, {EmptyDict})

LogNext == LogTrainingInfos

LogSpec == LogInit /\ [][LogNext]_vars

\* One save_checkpoint under every combination of the format and optimizer
\* flags, every rank taking its steps as long as it can (its writes complete).
SaveFlagArgs ==
    {[DefaultArgs EXCEPT !.use_dist_ckpt = a, !.use_distributed_optimizer = b, !.use_zero2 = c,
                         !.no_save_optim = d] :
        a \in BOOLEAN, b \in BOOLEAN, c \in BOOLEAN, d \in BOOLEAN}

SaveInit == InitWith(Topologies, SaveFlagArgs, {EmptyDict})

SaveNext ==
    \/ \E i \in 1 .. MaxIter : history = <<>> /\ CallSave(i, 10 * i)
    \/ \E r \in Ranks : SaveDistOptim(r)
    \/ \E r \in Ranks : SaveZero2(r)
    \/ \E r \in Ranks : SaveModel(r)
    \/ \E r \in Ranks : SaveBarrier1(r)
    \/ \E r \in Ranks : SaveTracker(r)
    \/ \E r \in Ranks : SaveBarrier2(r)

SaveFair ==
    \A r \in 0 .. MaxWorld - 1 :
        /\ WF_vars(r \in Ranks /\ SaveDistOptim(r))
        /\ WF_vars(r \in Ranks /\ SaveZero2(r))
        /\ WF_vars(r \in Ranks /\ SaveModel(r))
        /\ WF_vars(r \in Ranks /\ SaveBarrier1(r))
        /\ WF_vars(r \in Ranks /\ SaveTracker(r))
        /\ WF_vars(r \in Ranks /\ SaveBarrier2(r))

SaveSpec == SaveInit /\ [][SaveNext]_vars /\ SaveFair

\* ================================================================== claims
TrackerFile == get_checkpoint_tracker_filename(RootOf(args.save))
\* Ranks whose writes of the current save are still ahead of them.
WritesOutstanding ==
    {q \in Ranks : call.op = "save" /\ pc[q] \in {"s_distopt", "s_zero2", "s_model"}}
\* Ranks that wrote the tracker in the current call.
TrackerWriters == {r \in Ranks : <<TrackerFile, r>> \in written}
\* Ranks that wrote a record or a shard in the current call.
FileWriters == {r \in Ranks : \E w \in written : w[2] = r /\ w[1] # TrackerFile}
\* The iterations of the save calls made so far, in call order.
Saves == LET s == SelectSeq(history, LAMBDA h : h.op = "save")
         IN  [j \in 1 .. Len(s) |-> s[j].iteration]

\* C1: in every interleaving of the ranks of save_checkpoint(iteration = N), once
\* the tracker has been set to N by this call, no rank still has a model record,
\* distributed-optimizer shard or Zero2 shard of N to write.
C1_TrackerAfterWrites ==
    (call.op = "save" /\ TrackerWriters # {}) =>
        /\ WritesOutstanding = {}
        /\ disk[TrackerFile] = str(call.iteration)

C1_Witness ==
    /\ World > 1 /\ call.op = "save"
    /\ TrackerWriters # {}
    /\ FileWriters = Ranks

\* C2 (as amended): whenever the ranks are between calls, the tracker holds the
\* iteration of the save call made last: iN after saves at i1 < ... < iN, and
\* i_k after save i_k is executed again.
C2_TrackerHoldsLastSave ==
    (AllIdle /\ Saves # <<>>) => disk[TrackerFile] = str(Saves[Len(Saves)])

C2_Witness ==
    /\ AllIdle /\ World > 1
    /\ Saves = <<1, 2, 1>>
    /\ disk[TrackerFile] = str(1)

\* C2 as stated: after saves at i1 < ... < iN, followed by any number of
\* repetitions of earlier saves i_k (k < N), the tracker holds iN.
C2_TrackerMonotone ==
    \A n \in 1 .. Len(Saves) :
        (/\ AllIdle
         /\ \A j \in 1 .. n - 1 : Saves[j] < Saves[j + 1]
         /\ \A j \in n + 1 .. Len(Saves) : \E k \in 1 .. n - 1 : Saves[j] = Saves[k])
        => disk[TrackerFile] = str(Saves[n])

\* C3: with an initialized process group, a rank has left save_checkpoint only
\* when every rank has finished its own record and shard writes of the call.
C3_ReturnAfterAllWrites ==
    (topo.initialized /\ call.op = "save" /\ \E r \in Ranks : pc[r] = "idle")
        => WritesOutstanding = {}

C3_Witness ==
    /\ topo.initialized /\ World > 1 /\ call.op = "save"
    /\ \E r, q \in Ranks : pc[r] = "idle" /\ pc[q] = "s_barrier2"
    /\ FileWriters = Ranks

\* C4: in every save_checkpoint call the tracker is written by one process only,
\* rank 0 (the sole process without a process group), exactly once by the time
\* the call is over; and no step of load_checkpoint changes the tracker.
C4_SingleWriter ==
    /\ [](call.op = "save" =>
             /\ TrackerWriters \subseteq {0}
             /\ (\A r \in Ranks : pc[r] = "idle") => TrackerWriters = {0})
    /\ [][call.op = "load" =>
             /\ (TrackerFile \in DOMAIN disk') = (TrackerFile \in DOMAIN disk)
             /\ TrackerFile \in DOMAIN disk => disk'[TrackerFile] = disk[TrackerFile]]_vars

C4_Witness ==
    /\ World > 1 /\ call.op = "load"
    /\ Saves # <<>>
    /\ \E r \in Ranks : ret[r].status = "restored"

\* C5: during one save_checkpoint no two distinct ranks write the same path.
C5_NoSharedPath ==
    \A w1, w2 \in written : w1[1] = w2[1] => w1[2] = w2[2]
\* The call before the current one.
PrevCall == history[Len(history) - 1]
\* Rank r has run the body of the current load_checkpoint call.
LoadedBody(r) == call.op = "load" /\ pc[r] # "l_body"
Completed(r) == ret[r].status \in {"restored", "loaded"}
FreshCounters(r) ==
    ret[r].entry.consumed_train_samples = 0 /\ ret[r].entry.consumed_valid_samples = 0
RngCalls == {"random", "np", "torch", "cuda", "tracker"}
\* The load of rank r comes right after a save of the same job.
LoadAfterSave(r) == LoadedBody(r) /\ Len(history) >= 2 /\ PrevCall.op = "save"
RoundTrip(r) ==
    /\ ret[r].found /\ Completed(r)
    /\ ret[r].iteration = PrevCall.iteration
    /\ ret[r].flops = PrevCall.flops
    /\ RngCalls \subseteq ret[r].restored
    /\ pc[r] = "l_barrier" => live[r].rng = PrevCall.rng[r]

\* C6 (as amended): a load_checkpoint that comes right after
\* save_checkpoint(iteration = i, flops = f), on the same configuration, in a
\* process whose consumed-sample counters are zero, and not with use_zero2 in
\* the distributed format, returns (i, f) and restores every generator state
\* to the saved snapshot.
C6_RoundTrip ==
    \A r \in Ranks :
        (LoadAfterSave(r) /\ FreshCounters(r) /\ ~(args.use_zero2 /\ args.use_dist_ckpt))
            => RoundTrip(r)

C6_Witness ==
    \E r \in Ranks :
        /\ LoadAfterSave(r) /\ FreshCounters(r) /\ World > 1
        /\ pc[r] = "l_barrier"
        /\ live[r].rng = PrevCall.rng[r]
        /\ live[r].rng # history[Len(history)].rng[r]
        /\ args.use_distributed_optimizer

\* C6 as stated: every load right after a save returns (i, f) and restores the
\* generator states.
C6_RoundTripAlways ==
    \A r \in Ranks : LoadAfterSave(r) => RoundTrip(r)

\* C7 (as amended): a load_checkpoint called right after a completed
\* load_checkpoint of the same process and checkpoint, with no save in between, fails the
\* consumed-samples assertion when the first load left a counter non-zero, and
\* otherwise completes and returns the iteration the first load returned.
SecondLoad(r) == LoadedBody(r) /\ ret[r].prev.status = "loaded" /\ ret[r].prev.found
C7_SecondLoad ==
    \A r \in Ranks :
        SecondLoad(r) =>
            IF FreshCounters(r)
            THEN Completed(r) /\ ret[r].iteration = ret[r].prev.iteration
            ELSE ret[r].status = "assert" /\ ret[r].what = "DoubleLoad"

C7_Witness ==
    \E r \in Ranks :
        /\ SecondLoad(r) /\ ~FreshCounters(r) /\ ret[r].status = "assert"
        /\ ret[r].prev.iteration > 0

\* C7 as stated: the second load completes and returns the same iteration.
C7_LoadIdempotent ==
    \A r \in Ranks :
        SecondLoad(r) => Completed(r) /\ ret[r].iteration = ret[r].prev.iteration

\* C8: a load that finds a checkpoint while a consumed-sample counter of the
\* process is non-zero fails the assertion with nothing restored; a load that
\* completes otherwise (not finetune, record with its config) leaves both
\* counters at the values recorded in the checkpoint.
C8_DoubleLoadGuard ==
    \A r \in Ranks :
        (LoadedBody(r) /\ ret[r].found) =>
            IF ~FreshCounters(r)
            THEN /\ ret[r].status = "assert" /\ ret[r].what = "DoubleLoad"
                 /\ ret[r].restored = {}
                 /\ run[r] = ret[r].entry
            ELSE (pc[r] = "l_barrier" /\ ~run[r].finetune /\ ret[r].ckpt_args # None) =>
                 /\ run[r].consumed_train_samples = ret[r].ckpt_args.consumed_train_samples
                 /\ run[r].consumed_valid_samples = ret[r].ckpt_args.consumed_valid_samples

C8_Witness ==
    \E r \in Ranks :
        /\ World > 1 /\ LoadedBody(r) /\ ret[r].found
        /\ ~FreshCounters(r) /\ ret[r].status = "assert"
        /\ ret[r].prev.status = "saved"
\* The checkpoint the tracker under args.load names, when it is a sharded one,
\* and the config recorded in it.
LoadRoot == RootOf(args.load)
LatestDir ==
    get_checkpoint_name(LoadRoot, int(disk[get_checkpoint_tracker_filename(LoadRoot)]), FALSE, TRUE, 0)
ShardedOnDisk == checkpoint_exists(LoadRoot) /\ check_is_distributed_checkpoint(LatestDir)
RecordedArgs == disk[dist_common_name(LatestDir)].sd.args
Mismatch ==
    /\ ShardedOnDisk
    /\ <<RecordedArgs.tensor_model_parallel_size, RecordedArgs.pipeline_model_parallel_size>>
           # <<topo.tp, topo.pp>>
Fatal(r) == ret[r].status \in {"raise", "exit", "assert"} /\ pc[r] = "dead"

C10_MismatchDowngrade ==
    \A r \in Ranks :
        (/\ LoadedBody(r) /\ Mismatch /\ ~args.use_distributed_optimizer
         /\ args.use_dist_ckpt /\ ~args.finetune)
        => /\ Completed(r)
           /\ ret[r].iteration = Saves[Len(Saves)]
           /\ ret[r].restored \cap RngCalls = {}
\* The restore calls that load state from the record into the optimizer, the
\* scheduler and the generators.
RestoreCalls == {"optimizer", "param_state", "sched"} \cup RngCalls
\* Rank r has read a record in the current load_checkpoint call.
ReadRecord(r) == LoadedBody(r) /\ ret[r].found

C12_ReleaseOrFinetune ==
    \A r \in Ranks :
        (ReadRecord(r) /\ (ret[r].release \/ run[r].finetune)) =>
            /\ Completed(r) => ret[r].iteration = 0
            /\ ret[r].restored \cap RestoreCalls = {}

C12_Witness ==
    \E r \in Ranks :
        /\ ReadRecord(r) /\ run[r].finetune /\ ~ret[r].release
        /\ "iteration" \in ret[r].keys /\ "optimizer" \in ret[r].keys
        /\ ~args.no_load_optim /\ ~args.no_load_rng
        /\ World > 1 /\ pc[r] = "idle" /\ ret[r].status = "loaded" /\ ret[r].iteration = 0
        /\ "model" \in ret[r].restored

\* C13: load_checkpoint reads from the pretrained (finetune source) directory
\* exactly when that directory is configured and the load directory has no
\* checkpoint; when the pretrained directory has no checkpoint either, the
\* load fails with nothing restored and the process state as it was on entry.
PretrainedRoot == RootOf(args.pretrained_checkpoint)
FallsBack == args.pretrained_checkpoint # "None" /\ ~checkpoint_exists(LoadRoot)
C13_FinetuneFallback ==
    \A r \in Ranks :
        LoadedBody(r) =>
            /\ (FallsBack /\ checkpoint_exists(PretrainedRoot)) =>
                   ret[r].found /\ ret[r].load_dir = PretrainedRoot /\ run[r].finetune
            /\ ~FallsBack => ret[r].load_dir = LoadRoot /\ run[r].finetune = ret[r].entry.finetune
            /\ (FallsBack /\ ~checkpoint_exists(PretrainedRoot)) =>
                   /\ Fatal(r) /\ ret[r].what = "NoCheckpointFound"
                   /\ ~ret[r].found /\ ret[r].restored = {}
                   /\ run[r] = ret[r].entry /\ live[r] = LiveAt(r, 0)

C13_Witness ==
    \E r, q \in Ranks :
        /\ r # q /\ LoadedBody(r) /\ pc[q] = "l_body"
        /\ FallsBack /\ ~checkpoint_exists(PretrainedRoot)
        /\ ret[r].what = "NoCheckpointFound" /\ pc[r] = "dead"

\* The record rank r wrote in the current save_checkpoint call: the keys of
\* its file (in the distributed format, of its shard and of the common file).
WroteRecord(r) ==
    /\ call.op = "save" /\ WritesModelRecord(r)
    /\ \A q \in Ranks : Pos(pc[q]) > Pos("s_model")
SavedKeys(r) ==
    IF args.use_dist_ckpt
    THEN DOMAIN disk[dist_shard_name(SaveCheckpointName(r), r)].sd
         \cup DOMAIN disk[dist_common_name(SaveCheckpointName(r))].sd
    ELSE DOMAIN disk[SaveCheckpointName(r)].sd
StageKeys == <<"model0", "model1", "model2", "model3">>
AllModelKeys == {"model"} \cup {StageKeys[i] : i \in DOMAIN StageKeys}
ExpectedModelKeys(n) == IF n = 1 THEN {"model"} ELSE {StageKeys[i] : i \in 1 .. n}
\* The stage calls are whole passes over the stages 0..n-1 in increasing order,
\* each stage used right after it was made the active one.
InStageOrder(calls, n) ==
    /\ Len(calls) % (2 * n) = 0
    /\ \A j \in 1 .. (Len(calls) \div 2) :
           LET i == (j - 1) % n
           IN  /\ calls[2 * j - 1] = StageCall("set", i, "", i)
               /\ calls[2 * j] = StageCall("stage", i, StageKeys[i + 1], i)

\* C14: a record of a model of n > 1 stages has exactly the model entries
\* 'model0'..'model(n-1)', and of n = 1 stage exactly 'model'; on save and on
\* load the stages are processed in increasing order, each right after it was
\* made the active virtual-pipeline stage; and load restores entry 'model<i>'
\* into stage i.
C14_StageKeying ==
    \A r \in Ranks :
        /\ WroteRecord(r) =>
               /\ SavedKeys(r) \cap AllModelKeys = ExpectedModelKeys(args.num_stages)
               /\ args.num_stages > 1 => InStageOrder(ret[r].stages, args.num_stages)
               /\ args.num_stages > 1 => ret[r].stages # <<>>
        /\ (LoadedBody(r) /\ "model" \in ret[r].restored) =>
               /\ ret[r].keys \cap AllModelKeys = ExpectedModelKeys(args.num_stages)
               /\ args.num_stages > 1 => InStageOrder(ret[r].stages, args.num_stages)
               /\ \A i \in 1 .. args.num_stages :
                      live[r].model[i] = Val("model", clock, <<ModelKeyOf(r)[1], ModelKeyOf(r)[2], i - 1, 0>>)

C14_Witness ==
    \E r \in Ranks :
        /\ World > 1 /\ args.num_stages = MaxStages /\ clock > 0
        /\ LoadedBody(r) /\ "model" \in ret[r].restored /\ pc[r] = "idle"
        /\ Len(ret[r].stages) = 2 * MaxStages
        /\ live[r].model # LiveAt(r, 0).model

\* C16 (as amended): no_save_optim omits both the optimizer entry and the
\* scheduler entry of the record, no_save_rng omits the RNG entry, each without
\* effect on the other's entries; an entry that is not suppressed and whose
\* object is present is in the record, except the optimizer entry under
\* use_zero2, which is never in the record.
C16_SuppressionFlags ==
    \A r \in Ranks :
        WroteRecord(r) =>
            /\ "optimizer" \in SavedKeys(r)
                   <=> (~args.no_save_optim /\ args.optimizer_present /\ ~args.use_zero2)
            /\ "opt_param_scheduler" \in SavedKeys(r)
                   <=> (~args.no_save_optim /\ args.scheduler_present)
            /\ "rng_state" \in SavedKeys(r) <=> ~args.no_save_rng

C16_Witness ==
    \E r \in Ranks :
        /\ WroteRecord(r) /\ World > 1 /\ args.use_dist_ckpt
        /\ args.no_save_optim /\ ~args.no_save_rng /\ args.optimizer_present /\ args.scheduler_present
        /\ SavedKeys(r) \cap {"optimizer", "opt_param_scheduler", "rng_state"} = {"rng_state"}

\* C16 as stated: an optimizer, scheduler or RNG entry whose suppression is not
\* requested and whose object is present is in the record, and suppressing the
\* optimizer entry does not omit the scheduler entry.
C16_IndependentFlags ==
    \A r \in Ranks :
        WroteRecord(r) =>
            /\ (~args.no_save_optim /\ args.optimizer_present) => "optimizer" \in SavedKeys(r)
            /\ (~args.no_save_optim /\ args.scheduler_present) => "opt_param_scheduler" \in SavedKeys(r)
            /\ ~args.no_save_rng => "rng_state" \in SavedKeys(r)
            /\ (args.no_save_optim /\ args.scheduler_present) => "opt_param_scheduler" \in SavedKeys(r)

\* The ranks of r's model-parallel cell (same tensor and pipeline rank): its
\* dp x cp grid; and the Zero2 shard files they wrote in the current save.
Cell(r) == {q \in Ranks : ModelKeyOf(q) = ModelKeyOf(r)}
IsZero2Shard(p) == p[Len(p)].k = "zero2_optim"
Zero2Written(r) == {w \in written : w[2] \in Cell(r) /\ IsZero2Shard(w[1])}

\* C15: once the ranks of a Zero2 save are past their shard writes, the ranks
\* of a dp x cp grid have written dp * cp distinct shard files, the file of the
\* rank at (d, c) named by (d, c) and, in the monolithic format, holding that
\* rank's optimizer state; a Zero2 load attaches to the record, under
\* 'optimizer', a list of dp * cp states, the state saved by the rank at (d, c)
\* at position d * cp + c, on every rank.
C15_Zero2Shards ==
    \A r \in Ranks :
        /\ (call.op = "save" /\ \A q \in Ranks : Pos(pc[q]) > Pos("s_zero2")) =>
               /\ Cardinality({w[1] : w \in Zero2Written(r)}) = topo.dp * topo.cp
               /\ \A w \in Zero2Written(r) :
                      /\ w[1][Len(w[1])] = Comp("zero2_optim", get_data_parallel_rank(w[2]),
                                                                get_context_parallel_rank(w[2]))
                      /\ args.use_dist_ckpt \/
                         disk[w[1]].sd = Val("optimizer", clock, <<ModelKeyOf(w[2])[1], ModelKeyOf(w[2])[2],
                                                                    get_data_parallel_rank(w[2]),
                                                                    get_context_parallel_rank(w[2])>>)
        /\ (ReadRecord(r) /\ call.op = "load") =>
               /\ ret[r].zero2 # None
               /\ Len(ret[r].zero2.items) = topo.dp * topo.cp
               /\ \A d \in 0 .. topo.dp - 1, c \in 0 .. topo.cp - 1 :
                      ret[r].zero2.items[d * topo.cp + c + 1]
                          = Val("optimizer", clock, <<ModelKeyOf(r)[1], ModelKeyOf(r)[2], d, c>>)

C15_Witness ==
    \E r \in Ranks :
        /\ topo.dp = MaxShardAxis /\ topo.cp = MaxShardAxis /\ clock > 0
        /\ ReadRecord(r) /\ pc[r] = "idle" /\ ret[r].status = "loaded"
        /\ Len(ret[r].zero2.items) = MaxShardAxis * MaxShardAxis
        /\ Cardinality({ret[r].zero2.items[i] : i \in 1 .. Len(ret[r].zero2.items)}) = MaxShardAxis * MaxShardAxis
        /\ get_data_parallel_rank(r) = 1 /\ get_context_parallel_rank(r) = 1
        /\ live[r].optimizer = ret[r].zero2.items[MaxShardAxis * MaxShardAxis]

\* C17: when a rank has left _load_zero2_checkpoint, by return or by exception,
\* none of the legacy aliases is in its sys.modules.
C17_AliasesRemoved ==
    \A r \in Ranks : LoadedBody(r) => live[r].modules \cap Aliases = {}

\* C18: with the process group initialized, when a rank has returned
\* (iteration, flops) from a load_checkpoint that found a checkpoint, every
\* rank has completed its model, optimizer, scheduler and RNG restoration:
\* none is still inside lines 137-343, and none died there.
ReturnedFromLoad(r) == call.op = "load" /\ pc[r] = "idle" /\ ret[r].found /\ ret[r].status = "loaded"

C18_ReturnAfterAllRestored ==
    \A r \in Ranks :
        (topo.initialized /\ ReturnedFromLoad(r)) =>
            \A q \in Ranks : /\ pc[q] \in {"l_barrier", "idle"}
                             /\ ret[q].status \in {"restored", "loaded"}
                             /\ ret[q].found

\* One of two ranks has returned while the other, its restoration complete, is
\* still in the barrier call.
C18_Witness ==
    /\ topo.initialized
    /\ World > 1
    /\ \E r, q \in Ranks : /\ ReturnedFromLoad(r)
                          /\ ret[r].iteration > 0
                          /\ pc[q] = "l_barrier"
                          /\ "optimizer" \in ret[q].restored

\* C19: a non-release, non-finetune load that ends returns the record's
\* 'iteration' field, or its 'total_iters' field when 'iteration' is absent, on
\* every path; with both fields absent the process terminates without
\* returning an iteration.
NumericTracker == disk[get_checkpoint_tracker_filename(RootOf(args.load))] # "release"
RecordOf(r) == disk[get_checkpoint_name(RootOf(args.load), 1, FALSE, FALSE, r)].sd
CarriesIteration(sd) == HasKey(sd, "iteration") \/ HasKey(sd, "total_iters")
RecordIteration(sd) == IF HasKey(sd, "iteration") THEN sd.iteration ELSE sd.total_iters

C19_IterationFromRecord ==
    \A r \in Ranks :
        (LoadedBody(r) /\ NumericTracker /\ ~args.finetune) =>
            IF CarriesIteration(RecordOf(r))
            THEN Completed(r) => ret[r].iteration = RecordIteration(RecordOf(r))
            ELSE Fatal(r) /\ ret[r].what = "MissingIteration"

\* C20: in a load that is not release, not finetune and not no_load_optim, a
\* record without the 'optimizer' entry (the optimizer being non-null), or
\* without both 'lr_scheduler' and 'opt_param_scheduler' (the scheduler being
\* non-null), makes load_checkpoint terminate the process: no iteration is
\* returned, and with an iteration in the record the exit is the one of line 305.
LacksOptimizerState(sd) ==
    \/ args.optimizer_present /\ ~HasKey(sd, "optimizer")
    \/ args.scheduler_present /\ ~HasKey(sd, "lr_scheduler") /\ ~HasKey(sd, "opt_param_scheduler")

C20_MissingOptimizerFatal ==
    \A r \in Ranks :
        (/\ LoadedBody(r)
         /\ NumericTracker /\ ~args.finetune /\ ~args.no_load_optim
         /\ LacksOptimizerState(RecordOf(r))) =>
            /\ Fatal(r)
            /\ ~Completed(r)
            /\ ret[r].iteration = 0
            /\ CarriesIteration(RecordOf(r)) => ret[r].status = "exit" /\ ret[r].what = "MissingOptimizerState"

\* The record has the optimizer entry, which was restored, and no scheduler
\* entry under either name.
C20_Witness ==
    \E r \in Ranks :
        /\ LoadedBody(r)
        /\ NumericTracker /\ ~args.finetune /\ ~args.no_load_optim
        /\ HasKey(RecordOf(r), "optimizer")
        /\ LacksOptimizerState(RecordOf(r))
        /\ "optimizer" \in ret[r].restored
        /\ ret[r].what = "MissingOptimizerState"

\* C21: in a load that attempts the RNG restoration (not release, not finetune,
\* not no_load_rng), a snapshot whose tracker-states entry is empty, or that
\* lacks a generator key, ends the process at line 343: the tracker's
\* set_states is not called and the load does not return.
SnapshotOf(r) ==
    LET sd == RecordOf(r)
    IN  IF HasKey(sd, "rng_state")
        THEN sd.rng_state.items[(IF args.data_parallel_random_init THEN get_data_parallel_rank(r) ELSE 0) + 1]
        ELSE sd
Defective(rng_state) ==
    \/ \E k \in GeneratorKeys : ~HasKey(rng_state, k)
    \/ rng_state.rng_tracker_states = <<>>

C21_DefectiveRngFatal ==
    \A r \in Ranks :
        (/\ LoadedBody(r)
         /\ NumericTracker /\ ~args.finetune /\ ~args.no_load_rng
         /\ Defective(SnapshotOf(r))) =>
            /\ Fatal(r)
            /\ ret[r].status = "exit"
            /\ ret[r].what \in {"MissingRngState", "CorruptRngState"}
            /\ "tracker" \notin ret[r].restored
            /\ ret[r].iteration = 0

\* The snapshot has every key and an empty tracker-states array: the four
\* generators before it were set, then the process ended.
C21_Witness ==
    \E r \in Ranks :
        /\ LoadedBody(r)
        /\ NumericTracker /\ ~args.finetune /\ ~args.no_load_rng
        /\ \A k \in GeneratorKeys : HasKey(SnapshotOf(r), k)
        /\ SnapshotOf(r).rng_tracker_states = <<>>
        /\ ret[r].what = "CorruptRngState"
        /\ "cuda" \in ret[r].restored

\* C22: during a save with an initialized process group, the ranks that have
\* written a file of the main record are exactly the ranks past lines 87-111
\* whose data-modulo-expert-parallel rank is 0, or all such ranks under the
\* distributed format.
IsModelRecord(p) == p[Len(p)].k \in {"model_optim_rng.pt", "shard", "common.pt", "metadata.json"}
RecordWriters == {w[2] : w \in {x \in written : IsModelRecord(x[1])}}
PastRecord(r) == Pos(pc[r]) > Pos("s_model")

C22_RecordWriters ==
    (topo.initialized /\ call.op = "save") =>
        \A r \in Ranks :
            r \in RecordWriters <=>
                (PastRecord(r) /\ (get_data_modulo_expert_parallel_rank(r) = 0 \/ args.use_dist_ckpt))

\* A monolithic save on two data-parallel replicas has ended: the first replica
\* wrote the record, the second wrote none.
C22_Witness ==
    /\ topo.initialized /\ call.op = "save" /\ ~args.use_dist_ckpt
    /\ \A r \in Ranks : pc[r] = "idle"
    /\ \E r, q \in Ranks : /\ get_data_modulo_expert_parallel_rank(q) # 0
                          /\ r \in RecordWriters
                          /\ q \notin RecordWriters

\* C23: a Zero2 load of a checkpoint in the distributed format ends the process
\* on every rank: no record and no iteration is returned, nothing is restored,
\* and the failure comes before the read of the model file and the optimizer
\* shards is attempted.
BeforeRead == {"Zero2DistFormat", "UnexpectedKeywordArgument", "ParallelismMismatch", "MissingArgs"}

C23_Zero2RejectsDist ==
    \A r \in Ranks :
        (LoadedBody(r) /\ args.use_zero2 /\ ShardedOnDisk) =>
            /\ Fatal(r)
            /\ ret[r].what \in BeforeRead
            /\ ~ret[r].found /\ ret[r].keys = {} /\ ret[r].zero2 = None
            /\ ret[r].iteration = 0
            /\ ret[r].restored = {}
            /\ live[r] = LiveAt(r, 0)

\* The assertion of line 445 ended the load of a job that set neither
\* use_dist_ckpt nor auto_detect_ckpt_format.
C23_Witness ==
    \E r \in Ranks :
        /\ LoadedBody(r) /\ args.use_zero2 /\ ShardedOnDisk
        /\ ~args.use_dist_ckpt /\ ~args.auto_detect_ckpt_format
        /\ ret[r].status = "assert" /\ ret[r].what = "Zero2DistFormat"

\* C24: when a load asks the optimizer for its sharded state with a sharding
\* type, and the sharded checkpoint it loads was saved with one, the two are
\* the same, whatever ckpt_fully_parallel_save is in the live run.
SavedShardingTypes ==
    {disk[p].opts.optimizer.sharding_type :
        p \in {x \in {dist_shard_name(LatestDir, q) : q \in 0 .. MaxWorld} \cap DOMAIN disk :
                  /\ "optimizer" \in DOMAIN disk[x].opts
                  /\ HasKey(disk[x].opts.optimizer, "sharding_type")}}

C24_ShardingTypeMatches ==
    \A r \in Ranks :
        (/\ LoadedBody(r) /\ ShardedOnDisk
         /\ ret[r].sharding_type # "none"
         /\ SavedShardingTypes # {}) =>
            SavedShardingTypes = {ret[r].sharding_type}

\* The live run has the other value of the flag than the run that saved, and
\* its load has restored the optimizer.
C24_Witness ==
    \E r \in Ranks :
        /\ LoadedBody(r) /\ ShardedOnDisk
        /\ ret[r].sharding_type # "none"
        /\ SavedShardingTypes # {}
        /\ RecordedArgs.ckpt_fully_parallel_save # args.ckpt_fully_parallel_save
        /\ "optimizer" \in ret[r].restored

\* C25: a call of log_training_infos prints the log line exactly when
\* iteration % log_interval = 0; a call that prints leaves every counter and
\* every loss accumulator of total_loss_dict at zero, and the counts it reports
\* cover the calls since the previous line: advanced + skipped is their number
\* and the NaN count is at most the skipped count.
C25_LogEveryInterval ==
    logger.last.called =>
        /\ logger.last.emitted <=> (logger.iteration % logger.interval = 0)
        /\ logger.last.emitted =>
               /\ \A k \in DOMAIN logger.total_loss_dict : logger.total_loss_dict[k] = Scalar(0)
               /\ logger.last.advanced + logger.last.skipped = logger.last.calls
               /\ logger.last.nan <= logger.last.skipped

\* C26: with an initialized process group every rank of a save_checkpoint call
\* enters the barrier of line 115 after its writes and the barrier of line 129
\* after the tracker step, two in all and in that order, whatever the flags
\* and whether or not the rank writes; and once every rank has called
\* save_checkpoint, every rank returns.
BarriersEntered(r) ==
    IF Pos(pc[r]) <= Pos("s_barrier1") THEN 0
    ELSE IF Pos(pc[r]) <= Pos("s_barrier2") THEN 1
    ELSE 2

C26_BarrierBalanced ==
    /\ []((call.op = "save" /\ topo.initialized) =>
             \A r \in Ranks : barriers[r] = BarriersEntered(r))
    /\ (call.op = "save") ~> (call.op = "save" /\ \A r \in Ranks : pc[r] = "idle")

\* A save on two ranks has returned on both, one of which wrote the record and
\* the tracker and one of which wrote neither.
C26_Witness ==
    /\ topo.initialized /\ call.op = "save"
    /\ \A r \in Ranks : pc[r] = "idle" /\ barriers[r] = 2
    /\ \E r, q \in Ranks : /\ WritesModelRecord(r) /\ WritesTracker(r)
                          /\ ~WritesModelRecord(q) /\ ~WritesTracker(q)

\* C27: during a save in the distributed format with an initialized process
\* group, the directory of every shard a rank has written into exists.
IsShard(p) == p[Len(p)].k = "shard"

C27_DirectoryBeforeShards ==
    (call.op = "save" /\ topo.initialized /\ args.use_dist_ckpt) =>
        \A w \in written : IsShard(w[1]) => dirname(w[1]) \in dirs

\* C28: a load_checkpoint call whose loader finds no tracker file in the load
\* directory (and is neither sent to the pretrained directory nor told to exit
\* on a missing checkpoint) returns (0, 0) without a restore call, leaves the
\* rank's weights, optimizer, scheduler, generators and run configuration as
\* they were, and enters no barrier.
NoRecord(r) ==
    /\ call.op = "load" /\ pc[r] = "l_body"
    /\ ~UsesPretrained(LoadRoot)
    /\ ~checkpoint_exists(LoadRoot)
    /\ ~((args.auto_detect_ckpt_format \/ args.use_dist_ckpt) /\ args.exit_on_missing_checkpoint)

C28_NoRecordNoEffect ==
    [][\A r \in Ranks :
          (NoRecord(r) /\ call'.op = "load" /\ pc'[r] # pc[r]) =>
              /\ pc'[r] = "idle"
              /\ ret'[r].status = "loaded" /\ ~ret'[r].found
              /\ ret'[r].iteration = 0 /\ ret'[r].flops = 0
              /\ ret'[r].restored = {} /\ ret'[r].stages = <<>>
              /\ live'[r] = live[r]
              /\ run'[r] = run[r]
              /\ barriers'[r] = 0]_vars

\* A rank of a Zero2 job has returned from a load that found no tracker, after
\* training, while another rank is still inside load_checkpoint.
C28_Witness ==
    \E r, q \in Ranks :
        /\ call.op = "load" /\ pc[r] = "idle" /\ pc[q] = "l_body"
        /\ args.use_zero2 /\ topo.initialized
        /\ ~checkpoint_exists(LoadRoot)
        /\ ret[r].status = "loaded" /\ ~ret[r].found /\ ret[r].iteration = 0
        /\ run[r].consumed_train_samples > 0
        /\ barriers[r] = 0

\* C29: a load_checkpoint call that falls back to the pretrained directory
\* runs in finetune mode: the flag is set in the run configuration and stays
\* set after the return, the iteration returned is 0, both consumed-sample
\* counters stay 0, the model is restored, and optimizer, parameter state,
\* scheduler and generators are neither restored nor changed.
OptimizerRestores == {"optimizer", "param_state", "sched"}
RngRestores == {"random", "np", "torch", "cuda", "tracker"}

C29_FallbackIsFinetune ==
    \A r \in Ranks :
        (LoadedBody(r) /\ FallsBack /\ checkpoint_exists(PretrainedRoot)) =>
            /\ pc[r] # "dead"
            /\ run[r].finetune
            /\ ret[r].iteration = 0
            /\ run[r].consumed_train_samples = 0 /\ run[r].consumed_valid_samples = 0
            /\ "model" \in ret[r].restored
            /\ ret[r].restored \cap (OptimizerRestores \cup RngRestores) = {}
            /\ live[r].optimizer = LiveAt(r, clock).optimizer
            /\ live[r].param_state = LiveAt(r, clock).param_state
            /\ live[r].sched = LiveAt(r, clock).sched
            /\ live[r].rng = LiveAt(r, clock).rng

\* A rank of a job launched without the finetune flag and with optimizer
\* loading enabled has returned from a fallback load of a checkpoint of
\* iteration 1 that records consumed samples, optimizer and generator states.
C29_Witness ==
    \E r \in Ranks :
        /\ call.op = "load" /\ pc[r] = "idle" /\ ret[r].status = "loaded"
        /\ FallsBack /\ checkpoint_exists(PretrainedRoot)
        /\ ~args.finetune /\ ~ret[r].entry.finetune /\ ~args.no_load_optim /\ ~args.no_load_rng
        /\ ~ret[r].release
        /\ {"optimizer", "rng_state", "iteration", "args"} \subseteq ret[r].keys
        /\ ret[r].ckpt_args.consumed_train_samples > 0
        /\ run[r].finetune /\ ret[r].iteration = 0
====
